---- MODULE Spec2Model ----
(***************************************************************************)
(* venice-cli: failure classification, the apiRequest retry loop, the      *)
(* chatCompletionStream decoder, the tool dispatcher, the chat loops, the  *)
(* config command, the calculator tool and the history and usage stores.   *)
(*                                                                         *)
(* Each component has its own specification (SpecClassify, SpecApi, ...)   *)
(* over the shared variable tuple; a specification leaves the variables of *)
(* the other components at their initial values.                           *)
(***************************************************************************)
EXTENDS Integers, Sequences, FiniteSets, TLC

VARIABLES
    \* ---- VeniceApiError classification (src/lib/api.ts 15-49)
    statusCode,      \* statusCode of the error under classification (NoStatus = undefined)
    kind,            \* failure kind computed for it, "" before classification
    flags,           \* answers of isAuthError / isRateLimited / isRetryable for it
    \* ---- apiRequest (src/lib/api.ts 80-174)
    pc,              \* position of the call: start, attempt, probe, sleep, returned, threw
    hasKey,          \* getApiKey() yields a key
    isTTY,           \* process.stdout.isTTY
    retries,         \* options.retries
    showSpinner,     \* options.showSpinner
    stream,          \* options.stream
    attempt,         \* loop variable
    spinner,         \* local `spinner` is non-null
    currentSpinner,  \* module-level currentSpinner of output.ts is non-null
    lastError,       \* local lastError (NoError = null)
    thrown,          \* what the call threw (NoError while it has not thrown)
    pending,         \* duration of the sleep in progress, 0 when none
    log,             \* observable events of the call, in order
    \* ---- chatCompletionStream (src/lib/api.ts 243-337)
    script,          \* the records the server sends, by name, in order
    tailOpen,        \* the last record is not terminated by a newline
    wire,            \* symbols of the response body not yet delivered by reader.read()
    buffer,          \* local `buffer`
    lines,           \* lines of the current read still to be processed by the for loop
    totalUsage,      \* local `totalUsage` (NoUsage = null)
    events,          \* the chunks yielded so far
    gen,             \* position of the generator
    genErr,          \* why the generator threw: "", "transport" or "sink"
    locked,          \* the reader lock is held
    tracked,         \* entries recorded by trackUsage
    \* ---- executeTool (src/lib/tools.ts 290-333)
    toolPc,          \* position of the call: idle, called, prompt, returned
    toolName,        \* argument `name`
    toolArgs,        \* argument `args`, the parsed arguments
    interactive,     \* options.interactive
    toolResult,      \* the text the call resolved to (NoResult before)
    prompts,         \* names for which promptForApproval was shown, in order
    invoked,         \* executors that were called, in order
    answer,          \* what was typed at the approval prompt of this call (NoAnswer: not asked)
    \* ---- chat command: streamChat / nonStreamChat (commands/chat.ts 105-251)
    chatPc,          \* position: idle, first, loop, dispatch, followup, finished, failed
    shouldStream,    \* streamChat (TRUE) or nonStreamChat (FALSE) runs
    offered,         \* tools.length > 0
    messages,        \* the `messages` array
    response,        \* what the model answers in the first turn
    fullContent,     \* fullContent / response.content
    collectedToolCalls, \* collectedToolCalls / response.tool_calls
    callIx,          \* index of the tool call the for loop is at
    exchanges,       \* requests sent to /chat/completions, in order
    failure,         \* why the chat action failed: "", "api", "parse", "sink", "history"
    reportsUsage,    \* the responses of this chat carry a usage object
    endsWithDone,    \* the streamed responses end with a data: [DONE] line
    finalContent,    \* the answer text written to stdout last (NoContent: none yet)
    history,         \* conversations written by addConversation
    stderr,          \* errors printed by the catch block of the action
    exits,           \* arguments of the process.exit calls
    options,         \* --continue, --system, --character and --tools of the chat command
    followUpCalls,   \* tool calls the model puts into its follow-up answers
    thinking,        \* currentSpinner of output.ts is non-null between the steps of the chat
    \* ---- config command (commands/config.ts) and lib/config.ts
    cfg,             \* content of config.json: api_key and default_model
    printed,         \* lines written by the config commands, in order
    \* ---- toolExecutors.calculator (src/lib/tools.ts 157-186)
    calcPc,          \* position of the executor: called, done
    expression,      \* args.expression, a sequence of characters
    sanitized,       \* local `sanitized`
    evaluated,       \* the text handed to new Function (NotEvaluated: none)
    calcResult,      \* kind of the text the executor resolved to
    \* ---- history store (src/lib/config.ts: loadHistory .. clearHistory)
    historyFile,     \* history.json: whether it exists, and its text
    adds,            \* number of addConversation calls so far; call n adds entry n
    sinceClear,      \* number of addConversation calls since the last clearHistory
    \* ---- usage store written by concurrent CLI processes (loadUsage .. trackUsage)
    usageFile,       \* usage.json: whether it exists, and its text
    procPc,          \* per process: idle, or loaded (between loadUsage and saveUsage)
    loadedUsage,     \* per process: local `usage` of trackUsage
    recorded         \* per process: number of trackUsage calls that returned

apiVars == <<pc, hasKey, isTTY, retries, showSpinner, stream, attempt, spinner,
             currentSpinner, lastError, thrown, pending, log>>
classifyVars == <<statusCode, kind, flags>>
streamVars == <<script, tailOpen, wire, buffer, lines, totalUsage, events, gen, genErr,
                locked, tracked>>
vars == <<statusCode, kind, flags, pc, hasKey, isTTY, retries, showSpinner, stream,
          attempt, spinner, currentSpinner, lastError, thrown, pending, log,
          script, tailOpen, wire, buffer, lines, totalUsage, events, gen, genErr,
          locked, tracked,
          toolPc, toolName, toolArgs, interactive, toolResult, prompts, invoked,
          answer,
          chatPc, shouldStream, offered, messages, response, fullContent,
          collectedToolCalls, callIx, exchanges, failure, reportsUsage, endsWithDone,
          finalContent, history, stderr, exits, options, followUpCalls,
          thinking,
          cfg, printed, calcPc, expression, sanitized, evaluated, calcResult,
          historyFile, adds, sinceClear, usageFile, procPc, loadedUsage, recorded>>

toolVars == <<toolPc, toolName, toolArgs, interactive, toolResult, prompts, invoked,
              answer>>

chatVars == <<chatPc, shouldStream, offered, messages, response, fullContent,
              collectedToolCalls, callIx, exchanges, failure, reportsUsage,
              endsWithDone, finalContent, history, stderr, exits, options,
              followUpCalls, thinking>>
(* inputs of a chat, and what the action leaves behind *)
chatEnv == <<shouldStream, offered, response, reportsUsage, endsWithDone, options,
             followUpCalls>>
chatOut == <<history, stderr, exits>>
(* the decoder without the usage store it shares with the chat *)
decoderVars == <<script, tailOpen, wire, buffer, lines, totalUsage, events, gen, genErr,
                 locked>>

configVars == <<cfg, printed>>
calcVars == <<calcPc, expression, sanitized, evaluated, calcResult>>
historyVars == <<historyFile, adds, sinceClear>>
usageVars == <<usageFile, procPc, loadedUsage, recorded>>

otherThanClassify == <<apiVars, streamVars, toolVars, chatVars, configVars, calcVars,
                       historyVars, usageVars>>
otherThanApi == <<classifyVars, streamVars, toolVars, chatVars, configVars, calcVars,
                  historyVars, usageVars>>
otherThanStream == <<classifyVars, apiVars, toolVars, chatVars, configVars, calcVars,
                     historyVars, usageVars>>
otherThanTools == <<classifyVars, apiVars, streamVars, chatVars, configVars, calcVars,
                    historyVars, usageVars>>
otherThanChat == <<classifyVars, apiVars, decoderVars, configVars, calcVars, historyVars, usageVars>>
otherThanConfig == <<classifyVars, apiVars, streamVars, toolVars, chatVars, calcVars,
                     historyVars, usageVars>>
otherThanCalc == <<classifyVars, apiVars, streamVars, toolVars, chatVars, configVars,
                   historyVars, usageVars>>
otherThanHistory == <<classifyVars, apiVars, streamVars, toolVars, chatVars, configVars,
                      calcVars, usageVars>>
otherThanUsage == <<classifyVars, apiVars, streamVars, toolVars, chatVars, configVars,
                    calcVars, historyVars>>

-----------------------------------------------------------------------------
(* Constants of the program *)

MAX_RETRIES == 3
RETRY_DELAY_MS == 1000

(* `statusCode?: number`: undefined and 0 are both falsy in `!this.statusCode` *)
NoStatus == 0

-----------------------------------------------------------------------------
(* VeniceApiError predicates *)

isRetryableOff(s) == IF s = NoStatus THEN TRUE ELSE s > 500 /\ s < 600
isRetryable(s) == IF s = NoStatus THEN TRUE ELSE s >= 500 /\ s < 600

isAuthErrorNo403(s) == s = 401
isAuthError(s) == s = 401 \/ s = 403

isRateLimited(s) == s = 429

(* The order in which the catch block of apiRequest consults the predicates *)
KindOf(s) ==
    IF isAuthError(s) THEN "AuthError"
    ELSE IF isRateLimited(s) THEN "RateLimited"
    ELSE IF isRetryable(s) THEN "Transient"
    ELSE "ClientError"

-----------------------------------------------------------------------------
(* Classification of every status a response can carry *)

MinStatus == 100
MaxStatus == 599
StatusInputs == {NoStatus} \cup (MinStatus..MaxStatus)

NoFlags == [auth |-> FALSE, rate |-> FALSE, retry |-> FALSE]

InitClassifyVars ==
    /\ statusCode \in StatusInputs
    /\ kind = ""
    /\ flags = NoFlags

\* the catch block asks isAuthError / isRateLimited / isRetryable of the error
Classify ==
    /\ kind = ""
    /\ kind' = KindOf(statusCode)
    /\ flags' = [auth |-> isAuthError(statusCode),
                 rate |-> isRateLimited(statusCode),
                 retry |-> isRetryable(statusCode)]
    /\ UNCHANGED <<statusCode>>
    /\ UNCHANGED otherThanClassify

\* new VeniceApiError(message, status): the next error to classify
NewError ==
    /\ kind # ""
    /\ \E s \in StatusInputs : statusCode' = s
    /\ kind' = ""
    /\ flags' = NoFlags
    /\ UNCHANGED otherThanClassify

-----------------------------------------------------------------------------
(* apiRequest *)

NoError == [type |-> "none", status |-> NoStatus, msg |-> ""]
ApiError(s, m) == [type |-> "VeniceApiError", status |-> s, msg |-> m]
PlainError(t, m) == [type |-> t, status |-> NoStatus, msg |-> m]

(* What one pass through the try block can meet.                            *)
(*   ok        2xx, body delivered (response.json() resolves / stream)      *)
(*   http      non-2xx response: throw VeniceApiError.fromResponse(status)  *)
(*   netfault  fetch() rejects                                              *)
(*   badbody   2xx but response.json() rejects (non-stream calls only)      *)
ErrStatuses == {400, 401, 403, 404, 429, 500, 503}
Outcomes ==
    {[kind |-> "ok", status |-> 200], [kind |-> "netfault", status |-> NoStatus],
     [kind |-> "badbody", status |-> 200]}
    \cup {[kind |-> "http", status |-> s] : s \in ErrStatuses}

Event(e, a, v, f) == [ev |-> e, at |-> a, val |-> v, fault |-> f]

MaxLog == 14

RetriesOptions == 0..MAX_RETRIES

InitApiVars ==
    /\ pc = "start"
    /\ hasKey \in BOOLEAN
    /\ isTTY \in BOOLEAN
    /\ retries \in RetriesOptions
    /\ showSpinner \in BOOLEAN
    /\ stream \in BOOLEAN
    /\ attempt = 0
    /\ spinner = FALSE
    /\ currentSpinner = FALSE
    /\ lastError = NoError
    /\ thrown = NoError
    /\ pending = 0
    /\ log = <<>>

(* options.showSpinner && !stream ? startSpinner(text) : null, where          *)
(* startSpinner returns null unless stdout is a TTY                         *)
startSpinner(tty) == tty

HasSpinner(show, str, tty) == show /\ ~str /\ startSpinner(tty)

(* for (let attempt = 0; attempt <= retries; attempt++) *)
LoopCondOff(a, r) == a <= r + 1
LoopCondAlways(a, r) == TRUE
LoopCond(a, r) == a <= r

NextAttempt(a) == a + 1

(* error.isRetryable() && attempt < retries, and attempt < retries of the    *)
(* network-error branch                                                     *)
MayRetry(a, r) == a < r

(* sleep(RETRY_DELAY_MS * (attempt + 1) * 2) / sleep(RETRY_DELAY_MS * (attempt + 1)) *)
RateLimitDelayFlat(a) == RETRY_DELAY_MS * 2
RateLimitDelay(a) == RETRY_DELAY_MS * (a + 1) * 2
RetryDelay(a) == RETRY_DELAY_MS * (a + 1)

(* if (spinner) spinner.text = `... (attempt n/retries+1)` *)
ProgressSilent(lg, sp, a, n) == lg
Progress(lg, sp, a, n) == IF sp THEN Append(lg, Event("progress", a, n, FALSE)) ELSE lg

AuthHint == PlainError("Error", "Authentication failed. Update with: venice config set api_key")
OfflineGeneric == PlainError("Error", "fetch failed")
Offline == PlainError("Error", "Unable to connect to Venice API")
NoKey == "No API key found"

(* throw, preceded by `if (spinner) stopSpinner(false, ...)` *)
Throw(err, lg, sp, cs, le) ==
    /\ pc' = "threw"
    /\ thrown' = err
    /\ log' = lg
    /\ spinner' = sp
    /\ currentSpinner' = IF sp THEN FALSE ELSE cs
    /\ lastError' = le
    /\ pending' = 0
    /\ UNCHANGED attempt

(* await sleep(ms); continue *)
Sleep(ms, lg, sp, cs, le) ==
    /\ pc' = "sleep"
    /\ pending' = ms
    /\ log' = Append(lg, Event("sleep", attempt, ms, FALSE))
    /\ spinner' = sp
    /\ currentSpinner' = cs
    /\ lastError' = le
    /\ UNCHANGED <<thrown, attempt>>

(* catch (error): api = error instanceof VeniceApiError *)
Catch(api, status, msg, lg, sp, cs) ==
    IF api THEN
        IF isAuthError(status) THEN
            Throw(AuthHint, lg, sp, cs, ApiError(status, msg))
        ELSE IF isRateLimited(status) THEN
            Sleep(RateLimitDelay(attempt), Progress(lg, sp, attempt, attempt + 1),
                  sp, cs, ApiError(status, msg))
        ELSE IF isRetryable(status) /\ MayRetry(attempt, retries) THEN
            Sleep(RetryDelay(attempt), Progress(lg, sp, attempt, attempt + 2),
                  sp, cs, ApiError(status, msg))
        ELSE
            Throw(ApiError(status, msg), lg, sp, cs, ApiError(status, msg))
    ELSE
        IF MayRetry(attempt, retries) THEN
            \* const online = await checkOnline()
            /\ pc' = "probe"
            /\ log' = lg
            /\ spinner' = sp
            /\ currentSpinner' = cs
            /\ UNCHANGED <<lastError, thrown, pending, attempt>>
        ELSE
            Throw(ApiError(NoStatus, msg), lg, sp, cs, ApiError(NoStatus, msg))

(* lines 100-101 *)
ApiBegin ==
    /\ pc = "start"
    /\ spinner' = HasSpinner(showSpinner, stream, isTTY)
    /\ currentSpinner' = (HasSpinner(showSpinner, stream, isTTY) \/ currentSpinner)
    /\ pc' = "attempt"
    /\ UNCHANGED <<hasKey, isTTY, retries, showSpinner, stream, attempt,
                   lastError, thrown, pending, log>>
    /\ UNCHANGED otherThanApi

(* one pass through the try block, and through the catch block up to its    *)
(* first await; getHeaders() is evaluated before fetch is called            *)
ApiAttempt ==
    /\ pc = "attempt"
    /\ Len(log) < MaxLog
    /\ IF ~hasKey THEN
           Catch(FALSE, NoStatus, NoKey, log, spinner, currentSpinner)
       ELSE
           \E o \in Outcomes :
               /\ o.kind = "badbody" => ~stream
               /\ LET lg == Append(log, Event("request", attempt, o.status,
                                              o.kind \in {"netfault", "badbody"}))
                  IN  CASE o.kind = "ok" ->
                             /\ pc' = "returned"
                             /\ log' = lg
                             /\ spinner' = FALSE
                             /\ currentSpinner' = IF spinner THEN FALSE ELSE currentSpinner
                             /\ UNCHANGED <<lastError, thrown, pending, attempt>>
                        [] o.kind = "http" ->
                             Catch(TRUE, o.status, "server", lg, spinner, currentSpinner)
                        [] o.kind = "netfault" ->
                             Catch(FALSE, NoStatus, "fetch failed", lg, spinner, currentSpinner)
                        [] o.kind = "badbody" ->
                             \* stopSpinner(true) at line 117 ran before response.json()
                             Catch(FALSE, NoStatus, "bad json", lg, FALSE,
                                   IF spinner THEN FALSE ELSE currentSpinner)
    /\ UNCHANGED <<hasKey, isTTY, retries, showSpinner, stream>>
    /\ UNCHANGED otherThanApi

(* checkOnline() resolved: lines 153-162 *)
ApiProbe ==
    /\ pc = "probe"
    /\ \E online \in BOOLEAN :
          LET lg == Append(log, Event("probe", attempt, 0, ~online))
          IN  IF ~online THEN
                  Throw(Offline, lg, spinner, currentSpinner, lastError)
              ELSE
                  Sleep(RetryDelay(attempt), Progress(lg, spinner, attempt, attempt + 2),
                        spinner, currentSpinner, lastError)
    /\ UNCHANGED <<hasKey, isTTY, retries, showSpinner, stream>>
    /\ UNCHANGED otherThanApi

(* the sleep resolved: continue, attempt++, loop test; lines 172-173 on exit *)
ApiWake ==
    /\ pc = "sleep"
    /\ attempt' = NextAttempt(attempt)
    /\ pending' = 0
    /\ IF LoopCond(NextAttempt(attempt), retries) THEN
           /\ pc' = "attempt"
           /\ UNCHANGED <<thrown, currentSpinner>>
       ELSE
           /\ pc' = "threw"
           /\ thrown' = IF lastError # NoError THEN lastError
                        ELSE PlainError("Error", "Request failed after retries")
           /\ currentSpinner' = IF spinner THEN FALSE ELSE currentSpinner
    /\ UNCHANGED <<hasKey, isTTY, retries, showSpinner, stream, spinner, lastError, log>>
    /\ UNCHANGED otherThanApi

-----------------------------------------------------------------------------
(* chatCompletionStream: the response body as a sequence of symbols          *)

NL == "\n"
SP == " "
CR == "\r"
(* 'data: ' *)
Marker == <<"data", ":", SP>>
DONE == "[DONE]"

(* A JSON document is an opening symbol that carries its content, followed  *)
(* by its closing brace; anything else does not parse.                      *)
NoUsage == 0
JsonDocs ==
    [x \in {"{Hi", "{tc", "{Hi+tc", "{u1", "{u2"} |->
        CASE x = "{Hi"    -> [content |-> "Hi", tool_calls |-> "",   usage |-> NoUsage]
          [] x = "{tc"    -> [content |-> "",   tool_calls |-> "tc", usage |-> NoUsage]
          [] x = "{Hi+tc" -> [content |-> "Hi", tool_calls |-> "tc", usage |-> NoUsage]
          [] x = "{u1"    -> [content |-> "",   tool_calls |-> "",   usage |-> 1]
          [] x = "{u2"    -> [content |-> "",   tool_calls |-> "",   usage |-> 2]]

(* what a server can send, without the final newline: data records with a  *)
(* content delta, a tool-call delta, both, usage totals (after a blank      *)
(* separator line; padded and CR-terminated), a truncated document and the  *)
(* sentinel                                                                 *)
RecordNames == {"Hi", "tc", "Hi+tc", "u1", "u2", "bad", "done"}
RecordText(r) ==
    CASE r = "Hi"    -> Marker \o <<"{Hi", "}">>
      [] r = "tc"    -> Marker \o <<"{tc", "}">>
      [] r = "Hi+tc" -> Marker \o <<"{Hi+tc", "}">>
      [] r = "u1"    -> <<NL>> \o Marker \o <<"{u1", "}">>
      [] r = "u2"    -> Marker \o <<SP, "{u2", "}", CR>>
      [] r = "bad"   -> Marker \o <<"{Hi">>
      [] r = "done"  -> Marker \o <<DONE>>

RECURSIVE WireOf(_, _)
WireOf(rs, open) ==
    IF rs = <<>> THEN <<>>
    ELSE IF Len(rs) = 1 /\ open THEN RecordText(rs[1])
    ELSE RecordText(Head(rs)) \o <<NL>> \o WireOf(Tail(rs), open)

MaxRecords == 3
Scripts == UNION {[1..n -> RecordNames] : n \in 0..MaxRecords}

(* buffer.split('\n'): never empty, the last piece is what follows the last  *)
(* newline                                                                  *)
RECURSIVE SplitFrom(_, _, _)
SplitFrom(s, cur, acc) ==
    IF s = <<>> THEN Append(acc, cur)
    ELSE IF Head(s) = NL THEN SplitFrom(Tail(s), <<>>, Append(acc, cur))
    ELSE SplitFrom(Tail(s), Append(cur, Head(s)), acc)
Split(s) == SplitFrom(s, <<>>, <<>>)

(* buffer = lines.pop() || '': the text after the last newline is kept *)
PopNothing(pieces) == <<>>
Pop(pieces) == pieces[Len(pieces)]

(* if (json.usage) totalUsage = json.usage *)
LatestUsageSum(old, new) == old + new
LatestUsage(old, new) == IF new # NoUsage THEN new ELSE old

(* line.startsWith('data: ') *)
StartsWithMarker(line) ==
    Len(line) >= Len(Marker) /\ SubSeq(line, 1, Len(Marker)) = Marker

(* line.slice(6): "data" stands for four characters, any other symbol for   *)
(* one                                                                      *)
Width(x) == IF x = "data" THEN 4 ELSE 1
RECURSIVE Slice(_, _)
Slice(line, n) ==
    IF n <= 0 \/ line = <<>> THEN line ELSE Slice(Tail(line), n - Width(Head(line)))
Slice6(line) == Slice(line, 6)

(* String.prototype.trim *)
RECURSIVE TrimLeft(_)
TrimLeft(s) ==
    IF s # <<>> /\ Head(s) \in {SP, CR} THEN TrimLeft(Tail(s)) ELSE s
RECURSIVE TrimRight(_)
TrimRight(s) ==
    IF s # <<>> /\ s[Len(s)] \in {SP, CR} THEN TrimRight(SubSeq(s, 1, Len(s) - 1)) ELSE s
Trim(s) == TrimRight(TrimLeft(s))

(* JSON.parse(data) does not throw *)
ParsesLenient(data) == Len(data) >= 1 /\ data[1] \in DOMAIN JsonDocs
Parses(data) == Len(data) = 2 /\ data[1] \in DOMAIN JsonDocs /\ data[2] = "}"

ContentChunk(c) == [content |-> c, tool_calls |-> "", usage |-> NoUsage, done |-> FALSE]
ToolChunk(t) == [content |-> "", tool_calls |-> t, usage |-> NoUsage, done |-> FALSE]
DoneChunk(u) == [content |-> "", tool_calls |-> "", usage |-> u, done |-> TRUE]

InitStreamVars ==
    /\ script \in Scripts
    /\ tailOpen \in BOOLEAN
    /\ tailOpen => script # <<>>
    /\ wire = WireOf(script, tailOpen)
    /\ buffer = <<>>
    /\ lines = <<>>
    /\ totalUsage = NoUsage
    /\ events = <<>>
    /\ gen = "read"
    /\ genErr = ""
    /\ locked = TRUE
    /\ tracked = <<>>

(* the generator throws; the finally block releases the lock *)
GenThrowLocked(why) ==
    /\ gen' = "threw"
    /\ genErr' = why
    /\ locked' = locked
GenThrow(why) ==
    /\ gen' = "threw"
    /\ genErr' = why
    /\ locked' = FALSE

(* const { done, value } = await reader.read() delivers some bytes:          *)
(* lines 292-294                                                            *)
ReadChunk ==
    /\ gen = "read"
    /\ wire # <<>>
    /\ \E n \in 1..Len(wire) :
          LET pieces == Split(buffer \o SubSeq(wire, 1, n))
          IN  /\ wire' = SubSeq(wire, n + 1, Len(wire))
              /\ buffer' = Pop(pieces)
              /\ lines' = SubSeq(pieces, 1, Len(pieces) - 1)
              /\ gen' = IF Len(pieces) > 1 THEN "scan" ELSE "read"
    /\ UNCHANGED <<script, tailOpen, totalUsage, events, genErr, locked, tracked>>
    /\ UNCHANGED otherThanStream

(* reader.read() reports done: break, finally, then the yield of line 336    *)
ReadEnd ==
    /\ gen = "read"
    /\ wire = <<>>
    /\ locked' = FALSE
    /\ events' = Append(events, DoneChunk(totalUsage))
    /\ gen' = "done"
    /\ UNCHANGED <<script, tailOpen, wire, buffer, lines, totalUsage, genErr, tracked>>
    /\ UNCHANGED otherThanStream

(* reader.read() rejects *)
ReadError ==
    /\ gen = "read"
    /\ GenThrow("transport")
    /\ UNCHANGED <<script, tailOpen, wire, buffer, lines, totalUsage, events, tracked>>
    /\ UNCHANGED otherThanStream

(* after a line: next line of the for loop, or back to reader.read() *)
AfterLineEager(rest) == "read"
AfterLine(rest) == IF rest = <<>> THEN "read" ELSE "scan"

(* one iteration of `for (const line of lines)`, up to its first yield       *)
ScanLine ==
    /\ gen = "scan"
    /\ LET line == Head(lines)
           rest == Tail(lines)
           data == Trim(Slice6(line))
       IN  IF ~StartsWithMarker(line) THEN
               /\ lines' = rest
               /\ gen' = AfterLine(rest)
               /\ UNCHANGED <<totalUsage, events, genErr, locked, tracked>>
           ELSE IF data = <<DONE>> THEN
               \* trackUsage(...) when totalUsage is set, then yield the terminal chunk
               \E sinkOk \in BOOLEAN :
                   IF totalUsage # NoUsage /\ ~sinkOk THEN
                       /\ GenThrow("sink")
                       /\ UNCHANGED <<lines, totalUsage, events, tracked>>
                   ELSE
                       /\ tracked' = IF totalUsage # NoUsage
                                     THEN Append(tracked, totalUsage) ELSE tracked
                       /\ events' = Append(events, DoneChunk(totalUsage))
                       /\ gen' = "atDone"
                       /\ UNCHANGED <<lines, totalUsage, genErr, locked>>
           ELSE IF ~Parses(data) THEN
               \* catch { /* Skip malformed JSON */ }
               /\ lines' = rest
               /\ gen' = AfterLine(rest)
               /\ UNCHANGED <<totalUsage, events, genErr, locked, tracked>>
           ELSE
               LET json == JsonDocs[data[1]]
               IN  /\ totalUsage' = LatestUsage(totalUsage, json.usage)
                   /\ IF json.content # "" THEN
                          /\ events' = Append(events, ContentChunk(json.content))
                          /\ IF json.tool_calls # "" THEN
                                 /\ gen' = "atContent"
                                 /\ UNCHANGED lines
                             ELSE
                                 /\ lines' = rest
                                 /\ gen' = "atYield"
                      ELSE IF json.tool_calls # "" THEN
                          /\ events' = Append(events, ToolChunk(json.tool_calls))
                          /\ lines' = rest
                          /\ gen' = "atYield"
                      ELSE
                          /\ lines' = rest
                          /\ gen' = AfterLine(rest)
                          /\ UNCHANGED events
                   /\ UNCHANGED <<genErr, locked, tracked>>
    /\ UNCHANGED <<script, tailOpen, wire, buffer>>
    /\ UNCHANGED otherThanStream

(* resumed after the content yield of a record that also has tool_calls:     *)
(* lines 323-325                                                            *)
YieldToolCalls ==
    /\ gen = "atContent"
    /\ LET json == JsonDocs[Trim(Slice6(Head(lines)))[1]]
       IN  events' = Append(events, ToolChunk(json.tool_calls))
    /\ lines' = Tail(lines)
    /\ gen' = "atYield"
    /\ UNCHANGED <<script, tailOpen, wire, buffer, totalUsage, genErr, locked, tracked>>
    /\ UNCHANGED otherThanStream

(* the consumer asks for the next event while the generator is suspended at *)
(* the last yield of a record (line 320 or 324): the for loop goes on       *)
Resume ==
    /\ gen = "atYield"
    /\ gen' = AfterLine(lines)
    /\ UNCHANGED <<script, tailOpen, wire, buffer, lines, totalUsage, events, genErr,
                   locked, tracked>>
    /\ UNCHANGED otherThanStream

(* the consumer leaves its for-await loop at an event that is not terminal  *)
(* (break, return or an exception in the loop body): the generator is       *)
(* closed at its yield and its finally block runs                           *)
ConsumerReturn ==
    /\ gen \in {"atYield", "atContent"}
    /\ gen' = "returned"
    /\ locked' = FALSE
    /\ UNCHANGED <<script, tailOpen, wire, buffer, lines, totalUsage, events, genErr,
                   tracked>>
    /\ UNCHANGED otherThanStream

(* resumed or closed after the terminal yield of line 307: return, finally *)
ReturnAfterDone ==
    /\ gen = "atDone"
    /\ gen' = "done"
    /\ locked' = FALSE
    /\ UNCHANGED <<script, tailOpen, wire, buffer, lines, totalUsage, events, genErr, tracked>>
    /\ UNCHANGED otherThanStream

-----------------------------------------------------------------------------
(* executeTool *)

(* own properties of the toolExecutors object literal *)
ToolNames == {"calculator", "weather", "datetime", "random", "base64", "hash"}
(* a property every object literal inherits from Object.prototype *)
InheritedNames == {"toString"}
(* names the model may ask for; "undefined" is a call without function.name *)
CallNames == ToolNames \cup InheritedNames \cup {"nosuch", "undefined"}

(* parsed arguments: an object with the expected fields, an empty object,   *)
(* and null                                                                 *)
ArgValues == {"{x}", "{}", "null"}

(* const executor = toolExecutors[name]: property lookup on a plain object  *)
Lookup(name) ==
    IF name \in ToolNames THEN "own"
    ELSE IF name \in InheritedNames THEN "inherited"
    ELSE "none"

Text(k, n) == [kind |-> k, name |-> n]
NoResult == Text("", "")
UnknownTool(n) == Text("Unknown tool", n)
Cancelled == Text("Tool execution cancelled by user", "")
ToolError(n) == Text("Tool error", n)

(* the executor rejects: every executor but calculator reads a field of     *)
(* args outside a try block (hash does so in its catch block)               *)
ExecutorThrows(name, args) ==
    name \in {"weather", "datetime", "random", "base64", "hash"} /\ args = "null"

(* what the user may type at the question "Approve? [y/N]" *)
NoAnswer == "<not asked>"
AnswerTexts == {"Y", "yes", "n", ""}

(* answer.toLowerCase() on these texts *)
ToLowerCase(text) ==
    CASE text = "Y" -> "y" [] text = "Pirate" -> "pirate" [] OTHER -> text

(* resolve(answer.toLowerCase() === 'y' || answer.toLowerCase() === 'yes') *)
IsApprovalUnlessNo(text) == ToLowerCase(text) # "n"
IsApproval(text) == ToLowerCase(text) = "y" \/ ToLowerCase(text) = "yes"

(* try { return await executor(args) } catch (error) { return `Tool error` } *)
RunExecutor(name, args) ==
    IF Lookup(name) = "inherited" THEN Text("[object Undefined]", "")
    ELSE IF ExecutorThrows(name, args) THEN ToolError(name)
    ELSE Text("result", name)

InitToolVars ==
    /\ toolPc = "called"
    /\ toolName \in CallNames
    /\ toolArgs \in ArgValues
    /\ interactive \in BOOLEAN
    /\ toolResult = NoResult
    /\ prompts = <<>>
    /\ invoked = <<>>
    /\ answer = NoAnswer

(* lines 295-309 up to the first await *)
ExecLookup ==
    /\ toolPc = "called"
    /\ IF Lookup(toolName) = "none" THEN
           /\ toolResult' = UnknownTool(toolName)
           /\ toolPc' = "returned"
           /\ UNCHANGED <<prompts, invoked>>
       ELSE IF interactive THEN
           /\ prompts' = Append(prompts, toolName)
           /\ toolPc' = "prompt"
           /\ UNCHANGED <<toolResult, invoked>>
       ELSE
           /\ invoked' = Append(invoked, toolName)
           /\ toolResult' = RunExecutor(toolName, toolArgs)
           /\ toolPc' = "returned"
           /\ UNCHANGED prompts
    /\ UNCHANGED <<toolName, toolArgs, interactive, answer>>
    /\ UNCHANGED otherThanTools

(* the question of promptForApproval was answered: lines 303-312 *)
ExecAnswer ==
    /\ toolPc = "prompt"
    /\ \E typed \in AnswerTexts :
          /\ answer' = typed
          /\ IF ~IsApproval(typed) THEN
                 /\ toolResult' = Cancelled
                 /\ UNCHANGED invoked
             ELSE
                 /\ invoked' = Append(invoked, toolName)
                 /\ toolResult' = RunExecutor(toolName, toolArgs)
    /\ toolPc' = "returned"
    /\ UNCHANGED <<toolName, toolArgs, interactive, prompts>>
    /\ UNCHANGED otherThanTools

(* the caller takes the result and calls again *)
ExecAgain ==
    /\ toolPc = "returned"
    /\ toolPc' = "called"
    /\ \E n \in CallNames : toolName' = n
    /\ \E a \in ArgValues : toolArgs' = a
    /\ toolResult' = NoResult
    /\ prompts' = <<>>
    /\ invoked' = <<>>
    /\ answer' = NoAnswer
    /\ UNCHANGED interactive
    /\ UNCHANGED otherThanTools

-----------------------------------------------------------------------------
(* streamChat and nonStreamChat *)

(* toolCall.function.arguments as sent by the model: a JSON object, a       *)
(* truncated object, the text null, and the empty string                    *)
ArgTexts == {"{x}", "{x", "null", ""}

(* JSON.parse(toolCall.function.arguments || '{}') does not throw *)
ArgsParse(text) == text # "{x"
ParsedArgs(text) == IF text = "" THEN "{}" ELSE text

ModelCallNames == {"calculator", "weather", "nosuch"}
ToolCallOf(i, n, a) == [index |-> i, id |-> i, name |-> n, arguments |-> a]

(* the calls a first turn is built from: calculator with arguments that    *)
(* parse, do not parse or are empty; weather with an object and with null  *)
(* (its executor throws); a tool that does not exist                       *)
ModelCalls ==
    {c \in ModelCallNames \X ArgTexts :
        \/ c[1] = "calculator" /\ c[2] # "null"
        \/ c[1] = "weather" /\ c[2] \in {"{x}", "null"}
        \/ c[1] = "nosuch" /\ c[2] = "{x}"}

MaxCalls == 2
(* the tool calls of a first turn; call i has id i *)
CallLists ==
    UNION {{[i \in 1..k |-> ToolCallOf(i, f[i][1], f[i][2])] :
               f \in [1..k -> ModelCalls]} : k \in 0..MaxCalls}

(* the first fragment of a streamed call carries id and name with empty     *)
(* arguments, the second one the arguments only                             *)
RECURSIVE Fragments(_)
Fragments(cs) ==
    IF cs = <<>> THEN <<>>
    ELSE <<ToolCallOf(Head(cs).id, Head(cs).name, ""),
           [ToolCallOf(0, "undefined", Head(cs).arguments)
               EXCEPT !.index = Head(cs).index]>> \o Fragments(Tail(cs))

Msg(r, c, tcs, tid) == [role |-> r, content |-> c, tool_calls |-> tcs, tool_call_id |-> tid]
UserMsg == Msg("user", Text("text", "prompt"), <<>>, 0)

Exchange(withTools, msgs) == [tools |-> withTools, messages |-> msgs]

(* the content of every follow-up answer *)
FollowUpContent == "Final"
NoContent == "<nothing written>"

(* usage reported by the k-th response of the chat *)
UsageOf(k) == IF reportsUsage THEN k ELSE NoUsage

(* trackUsage is reached for the k-th response: chatCompletion calls it     *)
(* whenever response.usage is set, chatCompletionStream at the [DONE] line  *)
Tracks(k) == UsageOf(k) # NoUsage /\ (shouldStream => endsWithDone)

(* an error of apiRequest leaves streamChat / nonStreamChat *)
EscalateRetry(where) == where
Escalate(where) == "failed"

(* outputResponse(followUp.content, format) after a tool phase *)
AnswerOfFirst(first, followUp) == first
AnswerOf(first, followUp) == followUp

(* options.continue, options.system, options.character, options.tools (one *)
(* name); None: not given                                                   *)
None == "undefined"
NoOptions == [continue |-> FALSE, system |-> None, character |-> None, tools |-> None]
ChatOptions ==
    [continue : BOOLEAN, system : {None, "", "sys"}, character : {None, "Pirate", "nobody"},
     tools : {None, "calculator", "nosuch", "toString"}]

(* getToolDefinitions: toolNames.map(name => BUILTIN_TOOLS[name])           *)
(* .filter(Boolean); BUILTIN_TOOLS is an object literal with the keys of    *)
(* ToolNames, so an inherited name yields a function, which is truthy       *)
getToolDefinitions(name) ==
    IF name = None THEN <<>>
    ELSE IF name \in ToolNames THEN <<name>>
    ELSE IF name \in InheritedNames THEN <<"function">>
    ELSE <<>>

(* options.tools?.length: body.tools and body.tool_choice are set *)
BodyHasTools(tools) == Len(tools) > 0

(* CHARACTER_PROMPTS[character.toLowerCase()] *)
getCharacterPrompt(character) ==
    IF ToLowerCase(character) = "pirate" THEN "You are a pirate" ELSE None

(* the conversation a previous run saved *)
PriorMessages ==
    <<Msg("system", Text("text", "old"), <<>>, 0), Msg("user", Text("text", "earlier"), <<>>, 0)>>

(* getLastConversation(): history[history.length - 1], undefined when empty *)
getLastConversation(hist) == IF hist = <<>> THEN None ELSE hist[Len(hist)]

(* if (options.system) ... else if (options.character) ...: '' is falsy *)
SystemPromptCharacterFirst(opts) ==
    IF opts.character \notin {None, ""} /\ getCharacterPrompt(opts.character) # None
    THEN getCharacterPrompt(opts.character)
    ELSE IF opts.system \notin {None, ""} THEN opts.system ELSE None
SystemPrompt(opts) ==
    IF opts.system \notin {None, ""} THEN opts.system
    ELSE IF opts.character \notin {None, ""} THEN getCharacterPrompt(opts.character)
    ELSE None

(* the messages array as the action builds it before the first sub-exchange *)
BuildMessages(opts, hist) ==
    (IF opts.continue /\ getLastConversation(hist) # None
     THEN getLastConversation(hist) ELSE <<>>)
    \o (IF SystemPrompt(opts) # None
        THEN <<Msg("system", Text("text", SystemPrompt(opts)), <<>>, 0)>> ELSE <<>>)
    \o <<UserMsg>>

InitChatVars ==
    /\ chatPc = "first"
    /\ shouldStream \in BOOLEAN
    /\ options \in {[NoOptions EXCEPT !.tools = t] : t \in {None, "calculator"}}
    /\ offered = BodyHasTools(getToolDefinitions(options.tools))
    /\ followUpCalls = <<>>
    /\ thinking = FALSE
    /\ messages = BuildMessages(options, <<>>)
    /\ \E c \in {"", "Hi"}, cs \in CallLists, fragmented \in BOOLEAN :
          /\ cs # <<>> => offered
          /\ fragmented => shouldStream /\ cs # <<>>
          /\ response = [content |-> c,
                         tool_calls |-> IF fragmented THEN Fragments(cs) ELSE cs]
    /\ reportsUsage \in BOOLEAN
    /\ endsWithDone \in BOOLEAN
    /\ ~shouldStream => endsWithDone
    /\ fullContent = ""
    /\ collectedToolCalls = <<>>
    /\ callIx = 0
    /\ exchanges = <<>>
    /\ failure = ""
    /\ finalContent = NoContent
    /\ history = <<>>
    /\ stderr = <<>>
    /\ exits = <<>>
    /\ interactive \in BOOLEAN
    /\ toolPc = "idle"
    /\ toolName = ""
    /\ toolArgs = ""
    /\ toolResult = NoResult
    /\ prompts = <<>>
    /\ invoked = <<>>
    /\ answer = NoAnswer

(* the chat command with its options: the message list is built from the   *)
(* saved history, --system / --character and the prompt; the first turn     *)
(* answers with at most one calculator call                                 *)
InitTranscriptVars ==
    /\ chatPc = "first"
    /\ shouldStream \in BOOLEAN
    /\ options \in ChatOptions
    /\ offered = BodyHasTools(getToolDefinitions(options.tools))
    /\ followUpCalls \in {<<>>, <<ToolCallOf(9, "weather", "{x}")>>}
    /\ thinking = FALSE
    /\ history \in {<<>>, <<PriorMessages>>}
    /\ messages = BuildMessages(options, history)
    /\ \E cs \in {c \in CallLists : Len(c) <= 1 /\ \A i \in 1..Len(c) : c[i].name = "calculator"} :
          /\ cs # <<>> => offered
          /\ response = [content |-> "Hi", tool_calls |-> cs]
    /\ reportsUsage = TRUE
    /\ endsWithDone = TRUE
    /\ fullContent = ""
    /\ collectedToolCalls = <<>>
    /\ callIx = 0
    /\ exchanges = <<>>
    /\ failure = ""
    /\ finalContent = NoContent
    /\ stderr = <<>>
    /\ exits = <<>>
    /\ interactive \in BOOLEAN
    /\ toolPc = "idle"
    /\ toolName = ""
    /\ toolArgs = ""
    /\ toolResult = NoResult
    /\ prompts = <<>>
    /\ invoked = <<>>
    /\ answer = NoAnswer

(* the spinner that is left when the first sub-exchange has succeeded:      *)
(* streamChat starts one (stdout is a TTY whenever shouldStream holds) and  *)
(* clears it at the first content chunk only; the spinner of chatCompletion *)
(* is stopped by apiRequest before it returns                               *)
SpinnerAfterFirst(streaming, content) ==
    streaming /\ startSpinner(TRUE) /\ content = ""

(* catch (error) { clearSpinner(); throw error } of streamChat; nonStreamChat *)
(* never holds a spinner between its steps                                  *)
SpinnerAfterError(streaming, active) == IF streaming THEN FALSE ELSE active

(* the first sub-exchange: chatCompletion(messages, { model, tools }) or    *)
(* the first for-await loop over chatCompletionStream                       *)
ChatFirst ==
    /\ chatPc = "first"
    /\ exchanges' = Append(exchanges, Exchange(offered, messages))
    /\ \E ok \in BOOLEAN, sinkOk \in BOOLEAN :
          IF ~ok THEN
              /\ chatPc' = Escalate("first")
              /\ failure' = "api"
              /\ thinking' = SpinnerAfterError(shouldStream, thinking)
              /\ UNCHANGED <<fullContent, collectedToolCalls, callIx, finalContent,
                             tracked>>
          ELSE IF Tracks(1) /\ ~sinkOk THEN
              /\ chatPc' = "failed"
              /\ failure' = "sink"
              /\ thinking' = SpinnerAfterError(shouldStream, thinking)
              /\ finalContent' = IF shouldStream THEN response.content ELSE finalContent
              /\ UNCHANGED <<fullContent, collectedToolCalls, callIx, tracked>>
          ELSE
              /\ tracked' = IF Tracks(1) THEN Append(tracked, UsageOf(1)) ELSE tracked
              /\ fullContent' = response.content
              /\ collectedToolCalls' = response.tool_calls
              /\ thinking' = SpinnerAfterFirst(shouldStream, response.content)
              /\ finalContent' = IF shouldStream \/ response.tool_calls = <<>>
                                 THEN response.content ELSE finalContent
              /\ IF response.tool_calls # <<>>
                 THEN chatPc' = "loop" /\ callIx' = 1
                 ELSE chatPc' = "finished" /\ UNCHANGED callIx
              /\ UNCHANGED failure
    /\ UNCHANGED <<messages, chatEnv, chatOut>>
    /\ UNCHANGED toolVars
    /\ UNCHANGED otherThanChat

(* for (const toolCall of ...): the calls are taken in the order of the list *)
CallAtReversed(calls, ix) == calls[Len(calls) + 1 - ix]
CallAt(calls, ix) == calls[ix]

(* const args = JSON.parse(toolCall.function.arguments || '{}'), then the   *)
(* call of executeTool; a SyntaxError leaves the function                   *)
ChatParse ==
    /\ chatPc = "loop"
    /\ LET toolCall == CallAt(collectedToolCalls, callIx)
       IN  IF ArgsParse(toolCall.arguments) THEN
               /\ toolPc' = "called"
               /\ toolName' = toolCall.name
               /\ toolArgs' = ParsedArgs(toolCall.arguments)
               /\ toolResult' = NoResult
               /\ answer' = NoAnswer
               /\ chatPc' = "dispatch"
               /\ UNCHANGED <<failure, interactive, prompts, invoked, thinking>>
           ELSE
               /\ chatPc' = "failed"
               /\ failure' = "parse"
               /\ thinking' = SpinnerAfterError(shouldStream, thinking)
               /\ UNCHANGED toolVars
    /\ UNCHANGED <<messages, fullContent, collectedToolCalls, callIx, exchanges,
                   finalContent, tracked, chatEnv, chatOut>>
    /\ UNCHANGED otherThanChat

(* executeTool resolved: the two messages.push calls; streamChat goes on to *)
(* its follow-up inside the loop, nonStreamChat to the next call            *)
ChatToolDone ==
    /\ chatPc = "dispatch"
    /\ toolPc = "returned"
    /\ LET toolCall == CallAt(collectedToolCalls, callIx)
       IN  messages' = messages \o
               <<Msg("assistant", Text("text", fullContent), <<toolCall>>, 0),
                 Msg("tool", toolResult, <<>>, toolCall.id)>>
    /\ toolPc' = "idle"
    /\ IF shouldStream \/ callIx = Len(collectedToolCalls)
       THEN chatPc' = "followup" /\ UNCHANGED callIx
       ELSE chatPc' = "loop" /\ callIx' = callIx + 1
    /\ UNCHANGED <<fullContent, collectedToolCalls, exchanges, failure, finalContent,
                   tracked, chatEnv, chatOut, thinking>>
    /\ UNCHANGED <<toolName, toolArgs, interactive, toolResult, prompts, invoked,
                   answer>>
    /\ UNCHANGED otherThanChat

(* the options of the follow-up call are { model }: no tools *)
FollowUpTools == <<>>

(* the follow-up sub-exchange; only its content and usage are read, the     *)
(* tool_calls of its answer are not                                         *)
ChatFollowUp ==
    /\ chatPc = "followup"
    /\ exchanges' = Append(exchanges, Exchange(BodyHasTools(FollowUpTools), messages))
    /\ \E ok \in BOOLEAN, sinkOk \in BOOLEAN :
          LET k == Len(exchanges) + 1
          IN  IF ~ok THEN
                  /\ chatPc' = Escalate("followup")
                  /\ failure' = "api"
                  /\ thinking' = SpinnerAfterError(shouldStream, thinking)
                  /\ UNCHANGED <<callIx, finalContent, tracked>>
              ELSE IF Tracks(k) /\ ~sinkOk THEN
                  /\ chatPc' = "failed"
                  /\ failure' = "sink"
                  /\ thinking' = SpinnerAfterError(shouldStream, thinking)
                  /\ finalContent' = IF shouldStream THEN FollowUpContent
                                     ELSE finalContent
                  /\ UNCHANGED <<callIx, tracked>>
              ELSE
                  /\ tracked' = IF Tracks(k) THEN Append(tracked, UsageOf(k))
                                ELSE tracked
                  /\ finalContent' = AnswerOf(fullContent, FollowUpContent)
                  /\ IF shouldStream /\ callIx < Len(collectedToolCalls)
                     THEN chatPc' = "loop" /\ callIx' = callIx + 1
                     ELSE chatPc' = "finished" /\ UNCHANGED callIx
                  /\ UNCHANGED <<failure, thinking>>
    /\ UNCHANGED <<messages, fullContent, collectedToolCalls, chatEnv, chatOut>>
    /\ UNCHANGED toolVars
    /\ UNCHANGED otherThanChat

(* streamChat / nonStreamChat returned: addConversation({ ..., messages })  *)
ChatSave ==
    /\ chatPc = "finished"
    /\ \E written \in BOOLEAN :
          IF written THEN
              /\ history' = Append(history, messages)
              /\ chatPc' = "done"
              /\ UNCHANGED failure
          ELSE
              /\ chatPc' = "failed"
              /\ failure' = "history"
              /\ UNCHANGED history
    /\ UNCHANGED <<messages, fullContent, collectedToolCalls, callIx, exchanges,
                   finalContent, tracked, stderr, exits, chatEnv, thinking>>
    /\ UNCHANGED toolVars
    /\ UNCHANGED otherThanChat

(* catch (error) { console.error(formatError(...)); process.exit(1) }       *)
ChatExit ==
    /\ chatPc = "failed"
    /\ stderr' = Append(stderr, failure)
    /\ exits' = Append(exits, 1)
    /\ chatPc' = "exited"
    /\ UNCHANGED <<messages, fullContent, collectedToolCalls, callIx, exchanges,
                   failure, finalContent, tracked, history, chatEnv, thinking>>
    /\ UNCHANGED toolVars
    /\ UNCHANGED otherThanChat

-----------------------------------------------------------------------------
(* The config command *)

(* api keys: the key of length n is the text 1 2 ... n, one symbol per      *)
(* character                                                                *)
MaxKeyLen == 9
Key(n) == [i \in 1..n |-> ToString(i)]
Keys == {Key(n) : n \in 0..MaxKeyLen}

(* a property that is absent from config.json *)
Unset == <<"undefined">>
Models == {<<"llama">>}
NotSetText == <<"(not set)">>
NotShown == <<"-">>

(* validKeys, of which the model keeps two, and a key that is not valid *)
ConfigKeys == {"api_key", "default_model"}
KeyArgs == ConfigKeys \cup {"bogus"}
ValuesFor(key) == IF key = "api_key" THEN Keys ELSE Models

(* if (key.length <= 8) return '****';                                      *)
(* return key.slice(0, 4) + '...' + key.slice(-4)                           *)
maskApiKey(key) ==
    IF Len(key) <= 8 THEN <<"*", "*", "*", "*">>
    ELSE SubSeq(key, 1, 4) \o <<".", ".", ".">> \o SubSeq(key, Len(key) - 3, Len(key))

(* key === 'api_key' && value ? maskApiKey(value) : value ?? '(not set)'    *)
DisplayValue(key, value) ==
    IF key = "api_key" /\ value # Unset /\ value # <<>> THEN maskApiKey(value)
    ELSE IF value = Unset THEN NotSetText
    ELSE value

(* a command's output: what it shows for api_key while `secret` is the key  *)
Line(cmd, key, text) == [command |-> cmd, secret |-> key, shown |-> text]
MaxPrinted == 2

InitConfigVars ==
    /\ cfg \in [api_key : Keys \cup {Unset}, default_model : Models \cup {Unset}]
    /\ printed = <<>>

(* venice config *)
ConfigDefault ==
    /\ Len(printed) < MaxPrinted
    /\ printed' = Append(printed,
           Line("config", cfg.api_key, DisplayValue("api_key", cfg.api_key)))
    /\ UNCHANGED cfg
    /\ UNCHANGED otherThanConfig

(* venice config show [--format pretty|json]; JSON.stringify leaves out     *)
(* absent properties                                                        *)
ConfigShow ==
    /\ Len(printed) < MaxPrinted
    /\ \E format \in {"pretty", "json"} :
          printed' = Append(printed,
              Line("show", cfg.api_key,
                   IF format = "json"
                   THEN (IF cfg.api_key = Unset THEN NotShown ELSE cfg.api_key)
                   ELSE DisplayValue("api_key", cfg.api_key)))
    /\ UNCHANGED cfg
    /\ UNCHANGED otherThanConfig

(* venice config set <key> <value> *)
ConfigSet ==
    /\ Len(printed) < MaxPrinted
    /\ \E key \in KeyArgs :
          IF key \notin ConfigKeys THEN
              /\ printed' = Append(printed, Line("set", cfg.api_key, NotShown))
              /\ UNCHANGED cfg
          ELSE
              \E value \in ValuesFor(key) :
                  /\ cfg' = [cfg EXCEPT ![key] = value]
                  /\ printed' = Append(printed,
                         Line("set", cfg'.api_key,
                              IF key = "api_key" THEN maskApiKey(value) ELSE NotShown))
    /\ UNCHANGED otherThanConfig

(* venice config get <key> *)
ConfigGet ==
    /\ Len(printed) < MaxPrinted
    /\ \E key \in KeyArgs :
          LET value == IF key \in ConfigKeys THEN cfg[key] ELSE Unset
          IN  printed' = Append(printed,
                  Line("get", cfg.api_key,
                       IF value = Unset THEN (IF key = "api_key" THEN NotSetText ELSE NotShown)
                       ELSE IF key = "api_key" THEN maskApiKey(value)
                       ELSE NotShown))
    /\ UNCHANGED cfg
    /\ UNCHANGED otherThanConfig

(* venice config unset <key> *)
ConfigUnset ==
    /\ Len(printed) < MaxPrinted
    /\ \E key \in KeyArgs :
          /\ cfg' = IF key \in ConfigKeys THEN [cfg EXCEPT ![key] = Unset] ELSE cfg
          /\ printed' = Append(printed, Line("unset", cfg'.api_key, NotShown))
    /\ UNCHANGED otherThanConfig

-----------------------------------------------------------------------------
(* toolExecutors.calculator *)

(* a text is a sequence of characters; [0-9+\-*/().%\s] *)
Digits == {"0", "1", "2", "3", "4", "5", "6", "7", "8", "9"}
AllowedChars == Digits \cup {"+", "-", "*", "/", "(", ")", ".", "%", " "}

(* the names of the pattern, in the order of its alternatives, and the      *)
(* object literal mathFns                                                   *)
Alternatives ==
    <<"sqrt", "sin", "cos", "tan", "log", "exp", "abs",
      "pow", "floor", "ceil", "round", "PI", "E">>
NameChars ==
    [sqrt |-> <<"s", "q", "r", "t">>,
     sin |-> <<"s", "i", "n">>,
     cos |-> <<"c", "o", "s">>,
     tan |-> <<"t", "a", "n">>,
     log |-> <<"l", "o", "g">>,
     exp |-> <<"e", "x", "p">>,
     abs |-> <<"a", "b", "s">>,
     pow |-> <<"p", "o", "w">>,
     floor |-> <<"f", "l", "o", "o", "r">>,
     ceil |-> <<"c", "e", "i", "l">>,
     round |-> <<"r", "o", "u", "n", "d">>,
     PI |-> <<"P", "I">>,
     E |-> <<"E">>]
mathFns ==
    [sqrt |-> "Math.sqrt",
     sin |-> "Math.sin",
     cos |-> "Math.cos",
     tan |-> "Math.tan",
     log |-> "Math.log",
     exp |-> "Math.exp",
     abs |-> "Math.abs",
     pow |-> "Math.pow",
     floor |-> "Math.floor",
     ceil |-> "Math.ceil",
     round |-> "Math.round",
     PI |-> "Math.PI",
     E |-> "Math.E"]

(* toLowerCase, and the comparison of the i flag, on the letters in use *)
UpperCase == [E |-> "e", P |-> "p", I |-> "i", S |-> "s", X |-> "x"]
LowerChar(c) == IF c \in DOMAIN UpperCase THEN UpperCase[c] ELSE c
Lower(text) == [j \in 1..Len(text) |-> LowerChar(text[j])]

(* the alternative `name` matches at position i, ignoring case *)
NameMatchesAt(name, text, i) ==
    /\ i + Len(NameChars[name]) - 1 <= Len(text)
    /\ Lower(SubSeq(text, i, i + Len(NameChars[name]) - 1)) = Lower(NameChars[name])

(* the match the pattern finds at position i (<<>>: none): the character    *)
(* class is the first alternative, the names follow in order                *)
MatchAt(text, i) ==
    IF text[i] \notin AllowedChars THEN <<text[i]>>
    ELSE LET hits == {a \in 1..Len(Alternatives) : NameMatchesAt(Alternatives[a], text, i)}
         IN  IF hits = {} THEN <<>>
             ELSE LET first == CHOOSE a \in hits : \A b \in hits : a <= b
                  IN  SubSeq(text, i, i + Len(NameChars[Alternatives[first]]) - 1)

(* return mathFns[match.toLowerCase()] || match; a rewritten name is one    *)
(* symbol of the result                                                     *)
Replacement(match) ==
    LET keys == {name \in DOMAIN mathFns : NameChars[name] = Lower(match)}
    IN  IF keys = {} THEN match ELSE <<mathFns[CHOOSE name \in keys : TRUE]>>

(* args.expression.replace(pattern, callback) with the g flag *)
RECURSIVE SanitizeFrom(_, _)
SanitizeFrom(text, i) ==
    IF i > Len(text) THEN <<>>
    ELSE LET match == MatchAt(text, i)
         IN  IF match = <<>> THEN <<text[i]>> \o SanitizeFrom(text, i + 1)
             ELSE Replacement(match) \o SanitizeFrom(text, i + Len(match))
Sanitize(text) == SanitizeFrom(text, 1)

(* new Function(`return ${sanitized}`)(): a text that still holds letters   *)
(* names an identifier the function scope does not have and throws; a text  *)
(* without letters gives a value or is a syntax error                       *)
Letters == {"s", "q", "r", "t", "i", "n", "x", "e", "p", "E", "P", "I", "S", "X"}
MathSymbols == {mathFns[name] : name \in DOMAIN mathFns}
ResultText == "Result"
ErrorText == "Error evaluating expression"
EvalOutcomes(text) ==
    IF \E j \in 1..Len(text) : text[j] \in Letters THEN {ErrorText}
    ELSE IF \A j \in 1..Len(text) : text[j] \in Digits \cup MathSymbols THEN {ResultText}
    ELSE {ResultText, ErrorText}

NotEvaluated == <<"<none>">>

(* expressions the model sends: every text of up to MaxExprLen characters   *)
(* over a small alphabet, and the examples of the tool description          *)
MaxExprLen == 3
ExprAlphabet == {"2", "+", "E", "s", "x"}
SampleExpressions ==
    {<<"s", "q", "r", "t", "(", "1", "6", ")">>,
     <<"s", "i", "n", "(", "3", ".", "1", "4", ")">>,
     <<"2", " ", "+", " ", "2">>,
     <<"P", "I">>,
     <<"S", "Q", "R", "T", "(", "2", ")">>}
Expressions ==
    SampleExpressions \cup
    UNION {[1..n -> ExprAlphabet] : n \in 0..MaxExprLen}

InitCalcVars ==
    /\ calcPc = "called"
    /\ expression \in Expressions
    /\ sanitized = <<>>
    /\ evaluated = NotEvaluated
    /\ calcResult = ""

(* the body of the executor: lines 158-185 *)
CalcRun ==
    /\ calcPc = "called"
    /\ sanitized' = Sanitize(expression)
    /\ evaluated' = sanitized'
    /\ calcResult' \in EvalOutcomes(sanitized')
    /\ calcPc' = "done"
    /\ UNCHANGED expression
    /\ UNCHANGED otherThanCalc

(* the next call of the tool *)
CalcAgain ==
    /\ calcPc = "done"
    /\ calcPc' = "called"
    /\ expression' \in Expressions
    /\ sanitized' = <<>>
    /\ evaluated' = NotEvaluated
    /\ calcResult' = ""
    /\ UNCHANGED otherThanCalc

-----------------------------------------------------------------------------
(* The history store: loadHistory, saveHistory, addConversation,            *)
(* getLastConversation, clearHistory                                        *)

(* saveHistory keeps the last 100 conversations *)
HISTORY_LIMIT == 100
(* HISTORY_FILE does not exist; a file that exists has a text *)
NoFile == [exists |-> FALSE, text |-> <<>>]
File(text) == [exists |-> TRUE, text |-> text]
MaxAdds == 102

(* the entry of the n-th addConversation call; character is optional *)
Entry(n) == [id |-> n, character |-> IF n % 2 = 0 THEN None ELSE "pirate"]

(* JSON.stringify of an entry leaves out a property whose value is          *)
(* undefined; reading the property of a parsed entry yields undefined again *)
StringifyEntry(e) ==
    IF e.character = None THEN [id |-> e.id] ELSE [id |-> e.id, character |-> e.character]
ParseEntry(t) ==
    [id |-> t.id, character |-> IF "character" \in DOMAIN t THEN t.character ELSE None]
Stringify(entries) == [i \in 1..Len(entries) |-> StringifyEntry(entries[i])]
Parse(text) == [i \in 1..Len(text) |-> ParseEntry(text[i])]

(* history.slice(-n) *)
SliceFirst(h, n) == IF Len(h) <= n THEN h ELSE SubSeq(h, 1, n)
SliceLast(h, n) == IF Len(h) <= n THEN h ELSE SubSeq(h, Len(h) - n + 1, Len(h))

loadHistory(file) == IF ~file.exists THEN <<>> ELSE Parse(file.text)
saveHistory(h) == File(Stringify(SliceLast(h, HISTORY_LIMIT)))

InitHistoryVars ==
    /\ historyFile = NoFile
    /\ adds = 0
    /\ sinceClear = 0

(* addConversation(entry): load, push, save *)
AddConversation ==
    /\ adds < MaxAdds
    /\ historyFile' = saveHistory(Append(loadHistory(historyFile), Entry(adds + 1)))
    /\ adds' = adds + 1
    /\ sinceClear' = sinceClear + 1
    /\ UNCHANGED otherThanHistory

(* clearHistory(): the file is removed when it exists *)
ClearHistory ==
    /\ historyFile' = NoFile
    /\ sinceClear' = 0
    /\ UNCHANGED adds
    /\ UNCHANGED otherThanHistory

-----------------------------------------------------------------------------
(* The usage store under two CLI processes: loadUsage, saveUsage, trackUsage *)

Procs == {1, 2}
MaxTracks == 2

(* an entry of the file: who recorded it, as which of its calls, and        *)
(* whether its timestamp is more than 30 days old                           *)
UsageEntry(p, k, old) == [proc |-> p, call |-> k, old |-> old]

loadUsage(file) == IF ~file.exists THEN <<>> ELSE file.text
(* usage.filter(u => new Date(u.timestamp) > thirtyDaysAgo) *)
saveUsage(entries) == File(SelectSeq(entries, LAMBDA u : ~u.old))

InitUsageVars ==
    /\ usageFile \in {NoFile, File(<<UsageEntry(0, 1, TRUE)>>), File(<<UsageEntry(0, 1, FALSE)>>)}
    /\ procPc = [p \in Procs |-> "idle"]
    /\ loadedUsage = [p \in Procs |-> <<>>]
    /\ recorded = [p \in Procs |-> 0]

(* trackUsage, first half: const usage = loadUsage(); usage.push(entry) *)
TrackLoad(p) ==
    /\ procPc[p] = "idle"
    /\ recorded[p] < MaxTracks
    /\ loadedUsage' = [loadedUsage EXCEPT ![p] =
                    Append(loadUsage(usageFile), UsageEntry(p, recorded[p] + 1, FALSE))]
    /\ procPc' = [procPc EXCEPT ![p] = "loaded"]
    /\ UNCHANGED <<usageFile, recorded>>
    /\ UNCHANGED otherThanUsage

(* trackUsage, second half: saveUsage(usage) writes the whole file *)
TrackSave(p) ==
    /\ procPc[p] = "loaded"
    /\ usageFile' = saveUsage(loadedUsage[p])
    /\ recorded' = [recorded EXCEPT ![p] = recorded[p] + 1]
    /\ procPc' = [procPc EXCEPT ![p] = "idle"]
    /\ UNCHANGED loadedUsage
    /\ UNCHANGED otherThanUsage

-----------------------------------------------------------------------------
(* Specifications *)

IdleClassifyVars == statusCode = NoStatus /\ kind = "" /\ flags = NoFlags

IdleApiVars ==
    /\ pc = "idle"
    /\ hasKey = TRUE
    /\ isTTY = FALSE
    /\ retries = MAX_RETRIES
    /\ showSpinner = FALSE
    /\ stream = FALSE
    /\ attempt = 0
    /\ spinner = FALSE
    /\ currentSpinner = FALSE
    /\ lastError = NoError
    /\ thrown = NoError
    /\ pending = 0
    /\ log = <<>>

IdleStreamVars ==
    /\ script = <<>>
    /\ tailOpen = FALSE
    /\ wire = <<>>
    /\ buffer = <<>>
    /\ lines = <<>>
    /\ totalUsage = NoUsage
    /\ events = <<>>
    /\ gen = "idle"
    /\ genErr = ""
    /\ locked = FALSE
    /\ tracked = <<>>

IdleToolVars ==
    /\ toolPc = "idle"
    /\ toolName = ""
    /\ toolArgs = ""
    /\ interactive = FALSE
    /\ toolResult = NoResult
    /\ prompts = <<>>
    /\ invoked = <<>>
    /\ answer = NoAnswer

IdleChatVars ==
    /\ chatPc = "idle"
    /\ shouldStream = FALSE
    /\ offered = FALSE
    /\ messages = <<>>
    /\ response = [content |-> "", tool_calls |-> <<>>]
    /\ fullContent = ""
    /\ collectedToolCalls = <<>>
    /\ callIx = 0
    /\ exchanges = <<>>
    /\ failure = ""
    /\ reportsUsage = FALSE
    /\ endsWithDone = TRUE
    /\ finalContent = NoContent
    /\ history = <<>>
    /\ stderr = <<>>
    /\ exits = <<>>
    /\ options = NoOptions
    /\ followUpCalls = <<>>
    /\ thinking = FALSE

IdleConfigVars ==
    /\ cfg = [api_key |-> Unset, default_model |-> Unset]
    /\ printed = <<>>

IdleCalcVars ==
    /\ calcPc = "idle"
    /\ expression = <<>>
    /\ sanitized = <<>>
    /\ evaluated = NotEvaluated
    /\ calcResult = ""

IdleHistoryVars ==
    /\ historyFile = NoFile
    /\ adds = 0
    /\ sinceClear = 0

IdleUsageVars ==
    /\ usageFile = NoFile
    /\ procPc = [p \in Procs |-> "idle"]
    /\ loadedUsage = [p \in Procs |-> <<>>]
    /\ recorded = [p \in Procs |-> 0]

InitClassify ==
    /\ InitClassifyVars /\ IdleApiVars /\ IdleStreamVars /\ IdleToolVars /\ IdleChatVars
    /\ IdleConfigVars /\ IdleCalcVars /\ IdleHistoryVars /\ IdleUsageVars
NextClassify == Classify \/ NewError
SpecClassify == InitClassify /\ [][NextClassify]_vars

InitApi ==
    /\ InitApiVars /\ IdleClassifyVars /\ IdleStreamVars /\ IdleToolVars /\ IdleChatVars
    /\ IdleConfigVars /\ IdleCalcVars /\ IdleHistoryVars /\ IdleUsageVars
NextApi == ApiBegin \/ ApiAttempt \/ ApiProbe \/ ApiWake
SpecApi == InitApi /\ [][NextApi]_vars
(* every fetch, probe and sleep of a call completes *)
FairSpecApi == SpecApi /\ WF_vars(NextApi)

InitStream ==
    /\ InitStreamVars /\ IdleClassifyVars /\ IdleApiVars /\ IdleToolVars /\ IdleChatVars
    /\ IdleConfigVars /\ IdleCalcVars /\ IdleHistoryVars /\ IdleUsageVars
NextStream ==
    \/ ReadChunk \/ ReadEnd \/ ReadError \/ ScanLine \/ YieldToolCalls \/ ReturnAfterDone
    \/ Resume \/ ConsumerReturn
SpecStream == InitStream /\ [][NextStream]_vars

InitTools ==
    /\ InitToolVars /\ IdleClassifyVars /\ IdleApiVars /\ IdleStreamVars /\ IdleChatVars
    /\ IdleConfigVars /\ IdleCalcVars /\ IdleHistoryVars /\ IdleUsageVars
NextTools == ExecLookup \/ ExecAnswer \/ ExecAgain
SpecTools == InitTools /\ [][NextTools]_vars

InitChat ==
    /\ InitChatVars /\ IdleClassifyVars /\ IdleApiVars /\ IdleStreamVars
    /\ IdleConfigVars /\ IdleCalcVars /\ IdleHistoryVars /\ IdleUsageVars
NextChat ==
    \/ ChatFirst \/ ChatParse \/ ExecLookup \/ ExecAnswer \/ ChatToolDone
    \/ ChatFollowUp \/ ChatSave \/ ChatExit
SpecChat == InitChat /\ [][NextChat]_vars

(* the chat command from its options on *)
InitTranscript ==
    /\ InitTranscriptVars /\ IdleClassifyVars /\ IdleApiVars /\ IdleStreamVars
    /\ IdleConfigVars /\ IdleCalcVars /\ IdleHistoryVars /\ IdleUsageVars
SpecTranscript == InitTranscript /\ [][NextChat]_vars

InitConfig ==
    /\ InitConfigVars /\ IdleClassifyVars /\ IdleApiVars /\ IdleStreamVars
    /\ IdleToolVars /\ IdleChatVars /\ IdleCalcVars /\ IdleHistoryVars /\ IdleUsageVars
NextConfig == ConfigDefault \/ ConfigShow \/ ConfigSet \/ ConfigGet \/ ConfigUnset
SpecConfig == InitConfig /\ [][NextConfig]_vars

InitCalc ==
    /\ InitCalcVars /\ IdleClassifyVars /\ IdleApiVars /\ IdleStreamVars
    /\ IdleToolVars /\ IdleChatVars /\ IdleConfigVars /\ IdleHistoryVars /\ IdleUsageVars
NextCalc == CalcRun \/ CalcAgain
SpecCalc == InitCalc /\ [][NextCalc]_vars

InitHistory ==
    /\ InitHistoryVars /\ IdleClassifyVars /\ IdleApiVars /\ IdleStreamVars
    /\ IdleToolVars /\ IdleChatVars /\ IdleConfigVars /\ IdleCalcVars /\ IdleUsageVars
NextHistory == AddConversation \/ ClearHistory
SpecHistory == InitHistory /\ [][NextHistory]_vars

InitUsage ==
    /\ InitUsageVars /\ IdleClassifyVars /\ IdleApiVars /\ IdleStreamVars
    /\ IdleToolVars /\ IdleChatVars /\ IdleConfigVars /\ IdleCalcVars /\ IdleHistoryVars
NextUsage == \E p \in Procs : TrackLoad(p) \/ TrackSave(p)
SpecUsage == InitUsage /\ [][NextUsage]_vars

-----------------------------------------------------------------------------
(* Reading the log of an apiRequest call *)

Requests == SelectSeq(log, LAMBDA e : e.ev = "request")
Probes == SelectSeq(log, LAMBDA e : e.ev = "probe")
Sleeps == SelectSeq(log, LAMBDA e : e.ev = "sleep")
ProgressEvents == SelectSeq(log, LAMBDA e : e.ev = "progress")

AuthStatuses == {401, 403}
ClientStatuses == (400..499) \ {401, 403, 429}
ServerStatuses == 500..599

IsFatalRequest(e) ==
    e.ev = "request" /\ ~e.fault /\ e.val \in (AuthStatuses \cup ClientStatuses)
IsTransientRequest(e) ==
    e.ev = "request" /\ (e.val \in ServerStatuses \/ (e.fault /\ e.val = NoStatus))
IsSuccessRequest(e) == e.ev = "request" /\ ~e.fault /\ e.val = 200

Finished == pc \in {"returned", "threw"}

(* the call returned and every request before the last one failed as Transient *)
TransientThenSuccess ==
    /\ pc = "returned"
    /\ Len(Requests) >= 1
    /\ \A i \in 1..(Len(Requests) - 1) : IsTransientRequest(Requests[i])

-----------------------------------------------------------------------------
(* C1: 401 and 403 classify as AuthError, 429 as RateLimited, every 5xx and *)
(* an absent status as Transient, every other 4xx as ClientError (none of   *)
(* the three predicates), and at most one predicate answers true for any    *)
(* status.                                                                  *)
C1_Classification ==
    kind # "" =>
        /\ statusCode \in AuthStatuses =>
               kind = "AuthError" /\ flags.auth /\ ~flags.rate /\ ~flags.retry
        /\ statusCode = 429 =>
               kind = "RateLimited" /\ flags.rate /\ ~flags.auth /\ ~flags.retry
        /\ (statusCode = NoStatus \/ statusCode \in ServerStatuses) =>
               kind = "Transient" /\ flags.retry /\ ~flags.auth /\ ~flags.rate
        /\ statusCode \in ClientStatuses =>
               kind = "ClientError" /\ ~flags.auth /\ ~flags.rate /\ ~flags.retry
        /\ Cardinality({f \in {"auth", "rate", "retry"} : flags[f]}) <= 1

C1_Witness == statusCode = 500 /\ kind = "Transient" /\ flags.retry

(* C2: a request answered 401/403 or another 4xx (not 429) is the last      *)
(* event of the call: the call has thrown, with the remediation hint for    *)
(* 401/403 and with the classified server error for the other 4xx.          *)
C2_FatalEndsCall ==
    \A i \in 1..Len(log) :
        IsFatalRequest(log[i]) =>
            /\ i = Len(log)
            /\ pc = "threw"
            /\ log[i].val \in AuthStatuses => thrown = AuthHint
            /\ log[i].val \in ClientStatuses => thrown = ApiError(log[i].val, "server")

C2_Witness ==
    /\ pc = "threw"
    /\ Len(Requests) = 2
    /\ Requests[2].val = 403
    /\ thrown = AuthHint
    /\ Len(Sleeps) = 1

(* C3 as stated: k Transient failures followed by a success give k+1        *)
(* attempts and exactly k retry-progress events.                            *)
C3_KProgressEvents ==
    TransientThenSuccess =>
        /\ attempt = Len(Requests) - 1
        /\ Len(ProgressEvents) = Len(Requests) - 1

(* C3 amended: k Transient failures followed by a success give k+1 attempts *)
(* and k waits; there are exactly k retry-progress events when the call has *)
(* a spinner (showSpinner, not stream, stdout a TTY) and none otherwise.    *)
C3_KProgressEventsWithSpinner ==
    TransientThenSuccess =>
        /\ attempt = Len(Requests) - 1
        /\ Len(Sleeps) = Len(Requests) - 1
        /\ Len(ProgressEvents) =
              IF showSpinner /\ ~stream /\ isTTY THEN Len(Requests) - 1 ELSE 0

C3_Witness ==
    /\ TransientThenSuccess
    /\ Len(Requests) = 3
    /\ Len(ProgressEvents) = 2
    /\ Requests[1].val = 503
    /\ Requests[2].fault

(* C4: one call issues at most retries + 1 requests to the main endpoint.   *)
C4_AttemptBudget == Len(Requests) <= retries + 1

C4_Witness ==
    /\ pc = "threw"
    /\ retries = MAX_RETRIES
    /\ Len(Requests) = MAX_RETRIES + 1
    /\ \E i \in 1..Len(Requests) : Requests[i].val = 429
    /\ \E i \in 1..Len(Requests) : Requests[i].fault

(* C5: when every fetch, probe and sleep completes, every call eventually   *)
(* returns or throws.                                                       *)
C5_Termination == <>Finished

(* an endpoint answering 429 to every request: the call has thrown after    *)
(* retries + 1 requests                                                     *)
C5_Witness ==
    /\ pc = "threw"
    /\ retries = MAX_RETRIES
    /\ Len(Requests) = MAX_RETRIES + 1
    /\ \A i \in 1..Len(Requests) : Requests[i].val = 429
    /\ thrown = ApiError(429, "server")

(* C6: without an API key the call issues no request and no connectivity    *)
(* probe, performs no wait, and has failed once it has taken a step of the  *)
(* loop.                                                                    *)
C6_NoKeyNoTraffic ==
    ~hasKey =>
        /\ \A i \in 1..Len(log) : log[i].ev \notin {"request", "probe", "sleep"}
        /\ pc \in {"start", "attempt", "threw"}

-----------------------------------------------------------------------------
(* Reading a script: what the records of a stream are expected to produce   *)

(* the records that are terminated by a newline *)
Complete(rs, open) == IF open THEN SubSeq(rs, 1, Len(rs) - 1) ELSE rs

RecordEvents(r) ==
    CASE r = "Hi"    -> <<ContentChunk("Hi")>>
      [] r = "tc"    -> <<ToolChunk("tc")>>
      [] r = "Hi+tc" -> <<ContentChunk("Hi"), ToolChunk("tc")>>
      [] OTHER       -> <<>>

(* non-terminal events of the records before the sentinel *)
RECURSIVE Expected(_)
Expected(rs) ==
    IF rs = <<>> \/ Head(rs) = "done" THEN <<>>
    ELSE RecordEvents(Head(rs)) \o Expected(Tail(rs))

(* usage of the last usage-bearing record before the sentinel *)
RECURSIVE LastUsage(_, _)
LastUsage(rs, u) ==
    IF rs = <<>> \/ Head(rs) = "done" THEN u
    ELSE LastUsage(Tail(rs), CASE Head(rs) = "u1" -> 1 [] Head(rs) = "u2" -> 2 [] OTHER -> u)

WithoutMalformed(rs) == SelectSeq(rs, LAMBDA r : r # "bad")

IsPrefix(a, b) == Len(a) <= Len(b) /\ a = SubSeq(b, 1, Len(a))

(* C7: a stream read to its end without a transport error yields the        *)
(* non-terminal events of its records before the sentinel, in order, then   *)
(* exactly one terminal event, which is the last event.                     *)
C7_EventSequence ==
    (gen = "done" \/ (gen = "threw" /\ genErr # "transport" /\ wire = <<>>)) =>
        /\ Len(events) >= 1
        /\ events[Len(events)].done
        /\ \A i \in 1..(Len(events) - 1) : ~events[i].done
        /\ SubSeq(events, 1, Len(events) - 1) = Expected(Complete(script, tailOpen))

-----------------------------------------------------------------------------
(* C9: executeTool always resolves to a text; for a name that is not a      *)
(* registered tool the text is 'Unknown tool: <name>', no approval prompt   *)
(* is shown and no executor is called; an executor that throws gives a      *)
(* 'Tool error' text.                                                       *)
C9_SoftFailure ==
    /\ toolPc \in {"idle", "called", "prompt", "returned"}
    /\ toolName \notin ToolNames => prompts = <<>> /\ invoked = <<>>
    /\ toolPc = "returned" =>
          /\ toolResult # NoResult
          /\ toolName \notin ToolNames => toolResult = UnknownTool(toolName)
          /\ (invoked # <<>> /\ toolArgs = "null" /\ toolName \in ToolNames \ {"calculator"})
                 => toolResult = ToolError(toolName)

-----------------------------------------------------------------------------
(* C10: a tool call whose arguments do not parse does not abort the chat:   *)
(* the chat never fails on the parse, and once it has ended every such call *)
(* has a tool message carrying its id.                                      *)
UnparsableCalls ==
    {i \in 1..Len(collectedToolCalls) : ~ArgsParse(collectedToolCalls[i].arguments)}

C10_ParseFailureSoft ==
    /\ failure # "parse"
    /\ chatPc = "finished" =>
          \A i \in UnparsableCalls :
              \E m \in 1..Len(messages) :
                  /\ messages[m].role = "tool"
                  /\ messages[m].tool_call_id = collectedToolCalls[i].id

-----------------------------------------------------------------------------
(* C11: with interactive set, the executor of a registered tool is called   *)
(* only after the approval question was answered with yes; after any other  *)
(* answer the call resolves to 'Tool execution cancelled by user' and the   *)
(* executor is not called; without interactive no question is ever shown.   *)
Affirmative == {"y", "Y", "yes", "Yes", "YES"}

C11_ApprovalGate ==
    /\ ~interactive => prompts = <<>> /\ answer = NoAnswer
    /\ (interactive /\ toolName \in ToolNames) =>
          /\ toolPc = "prompt" => invoked = <<>>
          /\ invoked # <<>> => prompts = <<toolName>> /\ answer \in Affirmative
          /\ (toolPc = "returned" /\ answer \notin Affirmative) =>
                 toolResult = Cancelled /\ invoked = <<>>

C11_Witness ==
    /\ interactive /\ toolName \in ToolNames /\ toolPc = "returned"
    /\ prompts = <<toolName>> /\ answer = "" /\ toolResult = Cancelled /\ invoked = <<>>

-----------------------------------------------------------------------------
(* Reading a finished chat *)

ChatEnded == chatPc \in {"finished", "done"}

(* the call indices of the first turn, and the entries carrying index k *)
CallIndices == {response.tool_calls[j].index : j \in 1..Len(response.tool_calls)}
EntriesOf(k) == SelectSeq(response.tool_calls, LAMBDA tc : tc.index = k)

(* a text as the sequence of its non-empty pieces, so that concatenation of *)
(* texts is concatenation of sequences                                      *)
RECURSIVE Pieces(_)
Pieces(texts) ==
    IF texts = <<>> THEN <<>>
    ELSE (IF Head(texts) = "" THEN <<>> ELSE <<Head(texts)>>) \o Pieces(Tail(texts))
MergedArguments(k) == Pieces([j \in 1..Len(EntriesOf(k)) |-> EntriesOf(k)[j].arguments])

AssistantAt(m) == messages[m].role = "assistant" /\ Len(messages[m].tool_calls) = 1
ToolMessages == SelectSeq(messages, LAMBDA msg : msg.role = "tool")
FollowUps == SelectSeq(exchanges, LAMBDA x : ~x.tools /\ Len(x.messages) > 1)

-----------------------------------------------------------------------------
(* C12: a first turn with n >= 1 tool calls is followed by exactly one      *)
(* follow-up request, sent after all n calls were dispatched, in streaming  *)
(* and in non-streaming mode: the chat consists of 2 requests.              *)
C12_OneFollowUp ==
    response.tool_calls # <<>> =>
        /\ Len(exchanges) <= 2
        /\ ChatEnded => Len(exchanges) = 2
        /\ Len(exchanges) = 2 =>
               Len(ToolMessages) >= Cardinality(CallIndices)

-----------------------------------------------------------------------------
(* C13: in streaming mode every call index of the first turn gives exactly  *)
(* one dispatched call and one assistant/tool pair, and the arguments of    *)
(* that call are the concatenation of the fragments with this index.        *)
C13_FragmentsMerged ==
    (shouldStream /\ ChatEnded) =>
        \A k \in CallIndices :
            LET ms == {m \in 1..Len(messages) :
                          AssistantAt(m) /\ messages[m].tool_calls[1].index = k}
            IN  /\ Cardinality(ms) = 1
                /\ \A m \in ms :
                       Pieces(<<messages[m].tool_calls[1].arguments>>) = MergedArguments(k)

-----------------------------------------------------------------------------
(* C14: after the tool phase of a chat with n tool calls the message list   *)
(* is the original list followed by n pairs in call order: an assistant     *)
(* message with the accumulated content and exactly the k-th call, then a   *)
(* tool message with the id of the k-th call and the result of its          *)
(* dispatch.                                                                *)
C14_StrictPairing ==
    ChatEnded =>
        LET n == Cardinality(CallIndices)
        IN  /\ Len(messages) = 1 + 2 * n
            /\ messages[1] = UserMsg
            /\ \A k \in 1..n :
                   LET call == EntriesOf(k)[1]
                   IN  /\ AssistantAt(2 * k)
                       /\ messages[2 * k].content = Text("text", response.content)
                       /\ messages[2 * k].tool_calls[1].index = k
                       /\ messages[2 * k + 1].role = "tool"
                       /\ messages[2 * k + 1].tool_call_id = call.id
                       /\ messages[2 * k + 1].content \in
                              {Cancelled, UnknownTool(call.name),
                               RunExecutor(call.name, ParsedArgs(Head(MergedArguments(k) \o <<"">>)))}

-----------------------------------------------------------------------------
(* C15: a first turn with the single call calculator({"expression":"2+2"})  *)
(* whose dispatch gives the calculator's result is followed by exactly one  *)
(* follow-up request, and the message list ends 3 entries longer than the   *)
(* one user message it started with.                                        *)
CalculatorCall == ToolCallOf(1, "calculator", "{x}")
CalculatorScenario ==
    /\ offered
    /\ response.tool_calls \in {<<CalculatorCall>>, Fragments(<<CalculatorCall>>)}
    /\ Text("result", "calculator") \in {ToolMessages[j].content : j \in 1..Len(ToolMessages)}

C15_CalculatorScenario ==
    (chatPc = "done" /\ CalculatorScenario) =>
        /\ Len(FollowUps) = 1
        /\ Len(messages) = Len(<<UserMsg>>) + 3

-----------------------------------------------------------------------------
(* C16: a first turn without tool calls ends the chat with one request, no  *)
(* appended message and its own content as the answer; after a first turn   *)
(* with tool calls the answer is the content of the follow-up, not the      *)
(* content of the first turn.                                               *)
C16_FinalAnswer ==
    ChatEnded =>
        IF response.tool_calls = <<>>
        THEN /\ Len(exchanges) = 1
             /\ messages = <<UserMsg>>
             /\ finalContent = response.content
        ELSE /\ finalContent = FollowUpContent
             /\ finalContent # response.content

C16_Witness ==
    /\ chatPc = "done" /\ response.content = "Hi" /\ response.tool_calls # <<>>
    /\ finalContent = FollowUpContent /\ Len(exchanges) >= 2

-----------------------------------------------------------------------------
(* C17: when every response reports usage, a finished chat has recorded one *)
(* usage entry per request sent, in order, each the usage of that response; *)
(* no entry is a sum and no response is recorded twice.                     *)
C17_UsagePerSubExchange ==
    /\ \A i \in 1..Len(tracked) : tracked[i] \in 1..Len(exchanges)
    /\ \A i, j \in 1..Len(tracked) : i < j => tracked[i] < tracked[j]
    /\ (ChatEnded /\ reportsUsage) =>
           tracked = [k \in 1..Len(exchanges) |-> UsageOf(k)]

-----------------------------------------------------------------------------
(* C18: a trackUsage call that throws never makes the chat fail: the error  *)
(* of the usage store does not reach the caller of the sub-exchange.        *)
C18_SinkFailureHarmless == failure # "sink"

-----------------------------------------------------------------------------
(* C19: streamChat and nonStreamChat end alike for the same responses: the  *)
(* requests sent are the first one and, after tool calls, one follow-up     *)
(* carrying the final message list; the list has one pair per call; the     *)
(* answer is the last response's content.                                   *)
C19_SameAggregate ==
    ChatEnded =>
        LET n == Cardinality(CallIndices)
        IN  /\ exchanges = <<Exchange(offered, <<UserMsg>>)>> \o
                   (IF n = 0 THEN <<>> ELSE <<Exchange(FALSE, messages)>>)
            /\ Len(messages) = 1 + 2 * n
            /\ finalContent = IF n = 0 THEN response.content ELSE FollowUpContent

-----------------------------------------------------------------------------
(* C20: once apiRequest has thrown in the first or a follow-up sub-exchange *)
(* no request is sent and no tool is dispatched any more; the action prints *)
(* exactly one error, exits with code 1 and writes nothing to the history.  *)
C20_NoRecovery ==
    [][failure = "api" =>
          /\ exchanges' = exchanges
          /\ prompts' = prompts /\ invoked' = invoked
          /\ history = <<>> /\ history' = <<>>
          /\ stderr = <<>> /\ stderr' = <<"api">>
          /\ exits = <<>> /\ exits' = <<1>>]_vars

C20_Witness ==
    /\ chatPc = "exited" /\ failure = "api"
    /\ Len(exchanges) = 2 /\ invoked # <<>>
    /\ stderr = <<"api">> /\ exits = <<1>> /\ history = <<>>

-----------------------------------------------------------------------------
(* C21: whatever config commands run, every line shows for api_key at most  *)
(* its masked form: '****' for a key of up to 8 characters, else the first  *)
(* 4 characters, '...' and the last 4.                                      *)
C21_KeyMasked ==
    \A i \in 1..Len(printed) :
        \/ printed[i].shown \in {NotShown, NotSetText, maskApiKey(printed[i].secret)}
        \/ printed[i].secret = <<>>

-----------------------------------------------------------------------------
(* An expression made solely of permitted characters and allow-listed names *)
RECURSIVE PermittedFrom(_, _)
PermittedFrom(text, i) ==
    IF i > Len(text) THEN TRUE
    ELSE IF text[i] \in AllowedChars THEN PermittedFrom(text, i + 1)
    ELSE LET hits == {a \in 1..Len(Alternatives) : NameMatchesAt(Alternatives[a], text, i)}
         IN  /\ hits # {}
             /\ \E a \in hits :
                    PermittedFrom(text, i + Len(NameChars[Alternatives[a]]))
Permitted(text) == PermittedFrom(text, 1)

(* C22: only texts made of numeric literals, operators, parentheses,        *)
(* whitespace and the allow-listed math names are handed to new Function;   *)
(* an expression with any other character or identifier resolves to an      *)
(* error text and is not evaluated.                                         *)
C22_OnlyArithmeticEvaluated ==
    calcPc = "done" =>
        /\ evaluated # NotEvaluated =>
               \A j \in 1..Len(evaluated) : evaluated[j] \in AllowedChars \cup MathSymbols
        /\ ~Permitted(expression) =>
               evaluated = NotEvaluated /\ calcResult = ErrorText

-----------------------------------------------------------------------------
(* C23: every allow-listed name of the expression is rewritten to its       *)
(* Math.* counterpart before evaluation; 'sqrt(16)' resolves to a result,   *)
(* not to an error text.                                                    *)
C23_MathNamesRewritten ==
    (calcPc = "done" /\ Permitted(expression)) =>
        /\ \A j \in 1..Len(sanitized) : sanitized[j] \in AllowedChars \cup MathSymbols
        /\ expression = <<"s", "q", "r", "t", "(", "1", "6", ")">> =>
               /\ sanitized = <<"Math.sqrt", "(", "1", "6", ")">>
               /\ calcResult = ResultText

-----------------------------------------------------------------------------
(* Positions in the log of an apiRequest call *)

SleepAt(i) == i \in 1..Len(log) /\ log[i].ev = "sleep"
RequestAt(i) == i \in 1..Len(log) /\ log[i].ev = "request"

(* the request whose failure led to the event at position i (0: none) *)
CauseOf(i) ==
    LET before == {j \in 1..(i - 1) : log[j].ev = "request"}
    IN  IF before = {} THEN 0 ELSE CHOOSE j \in before : \A k \in before : k <= j

(* the wait at position i follows a 429 *)
RateWaitAt(i) == CauseOf(i) # 0 /\ log[CauseOf(i)].val = 429

-----------------------------------------------------------------------------
-----------------------------------------------------------------------------
(* C25: a failed connectivity probe ends the call at once with the 'Unable  *)
(* to connect' error: no wait and no request follow it, although attempts   *)
(* were left.                                                               *)
C25_OfflineShortCircuit ==
    \A i \in 1..Len(log) :
        (log[i].ev = "probe" /\ log[i].fault) =>
            /\ i = Len(log)
            /\ pc = "threw"
            /\ thrown.msg = "Unable to connect to Venice API"
            /\ log[i].at < retries

C25_Witness ==
    /\ pc = "threw" /\ thrown.msg = "Unable to connect to Venice API"
    /\ attempt = 0 /\ retries = MAX_RETRIES
    /\ Len(log) = 2 /\ log[1].ev = "request" /\ log[2].ev = "probe" /\ log[2].fault

-----------------------------------------------------------------------------
(* C26: the last retry after a Transient failure, a 5xx response as well as *)
(* a network fault, is preceded by a connectivity probe that succeeded.     *)
C26_ProbeBeforeLastRetry ==
    \A j \in 1..Len(log) :
        (RequestAt(j) /\ retries > 0 /\ log[j].at = retries
           /\ CauseOf(j) # 0 /\ IsTransientRequest(log[CauseOf(j)])) =>
            \E k \in (CauseOf(j) + 1)..(j - 1) : log[k].ev = "probe" /\ ~log[k].fault

-----------------------------------------------------------------------------
(* C27: every wait of a call is followed by another request; the call does  *)
(* not wait after the last attempt of its budget before it fails.           *)
C27_WaitThenRetry ==
    (Finished /\ hasKey) =>
        \A i \in 1..Len(log) :
            SleepAt(i) => \E j \in (i + 1)..Len(log) : RequestAt(j)

-----------------------------------------------------------------------------
(* C28: after a response with status 200 the call sends no further request, *)
(* whatever happens while the body is read.                                 *)
C28_SuccessNotResent ==
    \A i, j \in 1..Len(log) :
        (RequestAt(i) /\ log[i].val = 200 /\ i < j) => ~RequestAt(j)

-----------------------------------------------------------------------------
(* The events of a response body that arrives in one read *)
RECURSIVE DecodeLines(_, _)
DecodeLines(ls, usage) ==
    IF ls = <<>> THEN [events |-> <<>>, usage |-> usage, ended |-> FALSE]
    ELSE LET data == Trim(Slice6(Head(ls)))
         IN  IF ~StartsWithMarker(Head(ls)) THEN DecodeLines(Tail(ls), usage)
             ELSE IF data = <<DONE>> THEN
                 [events |-> <<DoneChunk(usage)>>, usage |-> usage, ended |-> TRUE]
             ELSE IF ~Parses(data) THEN DecodeLines(Tail(ls), usage)
             ELSE LET json == JsonDocs[data[1]]
                      rest == DecodeLines(Tail(ls),
                                  IF json.usage # NoUsage THEN json.usage ELSE usage)
                  IN  [rest EXCEPT !.events =
                          (IF json.content # "" THEN <<ContentChunk(json.content)>>
                           ELSE <<>>) \o
                          (IF json.tool_calls # "" THEN <<ToolChunk(json.tool_calls)>>
                           ELSE <<>>) \o rest.events]

WholeDecode(text) ==
    LET pieces == Split(text)
        r == DecodeLines(SubSeq(pieces, 1, Len(pieces) - 1), NoUsage)
    IN  IF r.ended THEN r.events ELSE Append(r.events, DoneChunk(r.usage))

(* C29: however the bytes of a response body are split into reads, also in  *)
(* the middle of a record or of the 'data: ' marker, the events yielded are *)
(* those of the body read in one piece.                                     *)
C29_ReadBoundaries ==
    /\ IsPrefix(events, WholeDecode(WireOf(script, tailOpen)))
    /\ gen = "done" => events = WholeDecode(WireOf(script, tailOpen))

(* a read ended inside the marker of the second record *)
C29_Witness ==
    /\ gen = "read" /\ buffer = <<"data", ":">> /\ wire # <<>>
    /\ events = <<ContentChunk("Hi"), ToolChunk("tc")>>

-----------------------------------------------------------------------------
(* C30: an event that is not terminal carries no usage; the terminal event  *)
(* carries the usage of the last usage-bearing record received before the   *)
(* sentinel or the end of the stream, or none; earlier values are dropped,  *)
(* not added up.                                                            *)
C30_LatestUsage ==
    \A i \in 1..Len(events) :
        IF events[i].done
        THEN events[i].usage = LastUsage(Complete(script, tailOpen), NoUsage)
        ELSE events[i].usage = NoUsage

C30_Witness ==
    /\ gen = "done" /\ script = <<"u1", "u2", "done">> /\ ~tailOpen
    /\ events = <<DoneChunk(2)>>

-----------------------------------------------------------------------------
(* a transport read: reader.read() delivers bytes, reports the end or rejects *)
TransportRead == ReadChunk \/ ReadEnd \/ ReadError

TerminalYielded == \E i \in 1..Len(events) : events[i].done

(* C31: the decoder never reads ahead of the consumer: a transport read is  *)
(* issued only while the generator runs on behalf of a waiting consumer,    *)
(* when no line of an earlier read is left to decode, and never after the   *)
(* terminal event was yielded or the sentinel made the generator stop.      *)
C31_NoReadAhead ==
    [][TransportRead =>
          /\ gen \notin {"atYield", "atContent", "atDone", "done", "threw", "returned"}
          /\ lines = <<>>
          /\ ~TerminalYielded]_vars

(* the consumer has taken the first event and asked for the next one; the   *)
(* generator is about to read again                                         *)
C31_Witness ==
    /\ gen = "read" /\ lines = <<>> /\ buffer = <<>> /\ wire # <<>>
    /\ events = <<ContentChunk("Hi")>>

-----------------------------------------------------------------------------
(* C32: once chatCompletionStream has ended, whether at the sentinel, at    *)
(* the end of the stream, by a transport error, by a failure of the usage   *)
(* sink or because the consumer left its loop early, the reader lock is     *)
(* released.                                                                *)
C32_LockReleased ==
    gen \in {"done", "threw", "returned"} => ~locked

(* a transport error after an event was delivered *)
C32_Witness ==
    /\ gen = "threw" /\ genErr = "transport" /\ ~locked
    /\ events = <<ContentChunk("Hi")>>

-----------------------------------------------------------------------------
(* C33: a stream that was read to its end and whose terminal event reports  *)
(* usage has that usage in the usage sink, also when no newline-terminated  *)
(* sentinel closed it.                                                      *)
C33_UsageAlwaysRecorded ==
    (gen = "done" /\ events[Len(events)].usage # NoUsage) =>
        tracked = <<events[Len(events)].usage>>

-----------------------------------------------------------------------------
(* the opening of the transcript that the options call for *)
PriorPart == IF options.continue /\ history # <<>> THEN history[1] ELSE <<>>
SystemPart ==
    IF options.system = "sys" THEN <<Msg("system", Text("text", "sys"), <<>>, 0)>>
    ELSE IF options.character = "Pirate"
         THEN <<Msg("system", Text("text", "You are a pirate"), <<>>, 0)>>
    ELSE <<>>
Opening == PriorPart \o SystemPart \o <<UserMsg>>

(* C34: the message list starts as the prior conversation (with --continue  *)
(* and a saved one), then at most one system message, that of --system when *)
(* given and else that of a known --character, then the user message; every *)
(* later list extends the one before it, so every request carries a list    *)
(* that starts with that opening and with the list of the request before.   *)
C34_AppendOnly ==
    [][/\ IsPrefix(messages, messages')
       /\ IsPrefix(Opening, messages')
       /\ \A i \in 1..Len(exchanges') :
             /\ IsPrefix(Opening, exchanges'[i].messages)
             /\ i > 1 => IsPrefix(exchanges'[i - 1].messages, exchanges'[i].messages)]_vars

(* --continue with --system and --character: a follow-up was sent with the  *)
(* five opening and tool-phase messages in order                            *)
C34_Witness ==
    /\ options.continue /\ options.system = "sys" /\ options.character = "Pirate"
    /\ Len(exchanges) = 2
    /\ Len(exchanges[2].messages) = 6
    /\ SubSeq(exchanges[2].messages, 1, 4) =
          PriorMessages \o <<Msg("system", Text("text", "sys"), <<>>, 0), UserMsg>>

-----------------------------------------------------------------------------
(* C35: only the first request of a chat carries tools and tool_choice, and *)
(* only when --tools names a known tool; every follow-up request goes out   *)
(* without them, and a tool call in a follow-up answer is neither executed  *)
(* nor answered by a further request.                                       *)
C35_FollowUpNotRecursive ==
    /\ \A i \in 1..Len(exchanges) :
          exchanges[i].tools => (i = 1 /\ options.tools \in ToolNames)
    /\ \A j \in 1..Len(invoked) :
          \E k \in 1..Len(response.tool_calls) : response.tool_calls[k].name = invoked[j]
    /\ Len(exchanges) <= 1 + Len(response.tool_calls)

-----------------------------------------------------------------------------
(* C36: the tool calls of an exchange run one at a time in the order of the *)
(* list: a call is in progress only while the loop waits for it, it is the  *)
(* call the loop is at, the results of all calls before it are already in   *)
(* the transcript, in list order, and no call has more than one approval    *)
(* prompt or handler run.                                                   *)
C36_Sequential ==
    /\ toolPc # "idle" =>
          /\ chatPc = "dispatch"
          /\ toolName = collectedToolCalls[callIx].name
    /\ chatPc \in {"loop", "dispatch"} => Len(ToolMessages) = callIx - 1
    /\ \A j \in 1..Len(ToolMessages) :
          ToolMessages[j].tool_call_id = collectedToolCalls[j].id
    /\ Len(prompts) <= callIx /\ Len(invoked) <= callIx
    /\ toolPc \in {"called", "prompt"} =>
          Len(prompts) <= callIx - 1 + (IF toolPc = "prompt" THEN 1 ELSE 0)
          /\ Len(invoked) <= callIx - 1

(* the approval prompt of the second call is shown after the first call was *)
(* approved, ran and had its result appended                                *)
C36_Witness ==
    /\ toolPc = "prompt" /\ callIx = 2
    /\ prompts = <<"calculator", "weather">>
    /\ invoked = <<"calculator">>
    /\ Len(ToolMessages) = 1

-----------------------------------------------------------------------------
(* C37: no spinner is active while an approval prompt is displayed, and     *)
(* none is active when the exchange has completed successfully.             *)
C37_ExclusiveTerminal ==
    /\ toolPc = "prompt" => ~thinking
    /\ chatPc \in {"finished", "done"} => ~thinking

-----------------------------------------------------------------------------
(* C38: the conversation saved after a successful chat ends with an         *)
(* assistant message that holds the final answer written to the user.       *)
C38_AnswerPersisted ==
    chatPc = "done" =>
        LET saved == history[Len(history)]
            last == saved[Len(saved)]
        IN  /\ last.role = "assistant"
            /\ last.tool_calls = <<>>
            /\ last.content = Text("text", finalContent)

-----------------------------------------------------------------------------
(* C39: after any sequence of addConversation and clearHistory calls the    *)
(* stored history has at most 100 entries, they are the entries added last  *)
(* since the latest clearHistory, in the order they were added, and         *)
(* getLastConversation returns the entry added last, or nothing when none   *)
(* was added since the latest clearHistory.                                 *)
C39_Retention ==
    LET stored == loadHistory(historyFile)
        n == Len(stored)
    IN  /\ n <= 100
        /\ n = IF sinceClear <= 100 THEN sinceClear ELSE 100
        /\ \A i \in 1..n : stored[i] = Entry(adds - n + i)
        /\ IF sinceClear = 0
           THEN stored = <<>> /\ getLastConversation(stored) = None
           ELSE stored # <<>> /\ getLastConversation(stored) = Entry(adds)

(* 102 conversations were added without a clear: the first two are gone *)
C39_Witness ==
    /\ sinceClear = 102
    /\ Len(loadHistory(historyFile)) = 100
    /\ loadHistory(historyFile)[1] = Entry(adds - 99)
    /\ getLastConversation(loadHistory(historyFile)) = Entry(adds)

-----------------------------------------------------------------------------
(* C40: when two processes interleave their trackUsage calls, every entry   *)
(* whose trackUsage call has returned is in the usage file.                 *)
C40_NoLostUpdate ==
    \A p \in Procs : \A k \in 1..recorded[p] :
        \E i \in 1..Len(loadUsage(usageFile)) :
            loadUsage(usageFile)[i] = UsageEntry(p, k, FALSE)

====
